---- MODULE Spec2Model ----
(***************************************************************************)
(* Model of the MLPCHAG character search extension (src/index.js, and the  *)
(* earlier iteration src/unnamed/part_001): the catalog fetcher with its   *)
(* timestamped cache, and the filter / tag-count / sort / paginate         *)
(* pipeline of fetchCharactersBySearch.                                    *)
(*                                                                         *)
(* JavaScript strings are sequences of one-character strings, so that the  *)
(* separator replacement and the case folding are computed, not assumed.   *)
(* An absent property (undefined) is the empty tuple None, a present one   *)
(* the one-element tuple Some(v).                                          *)
(***************************************************************************)
EXTENDS Integers, Sequences, FiniteSets, TLC

\* ------------------------------------------------------------------------
\* Bounds of the model
\* ------------------------------------------------------------------------
MaxEntries == 3
MaxInvalid == 1
MaxSelected == 2
MaxSearches == 2
MaxTicks == 2
MaxPage == 4
MaxPageSize == 2
MaxTagList == 3
MaxNavPage == 4
MaxBatches == 1
MaxDirect == 1
MaxListeners == 2
SessionFindCount == 2

\* ------------------------------------------------------------------------
\* JavaScript values
\* ------------------------------------------------------------------------
None == <<>>
Some(v) == <<v>>

\* An object without properties: {}.
EmptyMap == [x \in {} |-> x]

\* The separators of a path.
Slash == "/"
Backslash == "\\"

\* String.prototype.toLowerCase on one character.
LowerChar(c) ==
    CASE c = "A" -> "a"
      [] c = "B" -> "b"
      [] c = "C" -> "c"
      [] c = "D" -> "d"
      [] c = "E" -> "e"
      [] c = "L" -> "l"
      [] c = "M" -> "m"
      [] c = "R" -> "r"
      [] c = "Z" -> "z"
      [] OTHER -> c

\* String.prototype.toLowerCase.
toLowerCase(s) == [i \in 1..Len(s) |-> LowerChar(s[i])]

\* key.replace(/\\/g, '/') : every backslash becomes a forward slash.
normalizeSlashes(s) == [i \in 1..Len(s) |-> IF s[i] = Backslash THEN Slash ELSE s[i]]

\* key.replace(/\//g, '\\') : every forward slash becomes a backslash.
backslashForm(s) == [i \in 1..Len(s) |-> IF s[i] = Slash THEN Backslash ELSE s[i]]

\* Array.prototype.some / every / filter over a sequence.
some(seq, P(_)) == \E i \in 1..Len(seq) : P(seq[i])
every(seq, P(_)) == \A i \in 1..Len(seq) : P(seq[i])
includes(seq, x) == \E i \in 1..Len(seq) : seq[i] = x

\* String.prototype.includes: term occurs as a contiguous substring of s.
strIncludes(s, term) ==
    \E i \in 0..(Len(s) - Len(term)) : SubSeq(s, i + 1, i + Len(term)) = term

\* ------------------------------------------------------------------------
\* Strings of the program and of the modelled data
\* ------------------------------------------------------------------------
\* Category ids (index.js:36-40) and some of the tag ids (index.js:45-63).
nsfw == <<"n", "s", "f", "w">>
eqg == <<"e", "q", "g">>
anthro == <<"a", "n", "t", "h", "r", "o">>
mare == <<"m", "a", "r", "e">>
stallion == <<"s", "t", "a", "l", "l", "i", "o", "n">>
canon == <<"c", "a", "n", "o", "n">>

\* The category buttons and the tag buttons, in document order
\* (generateListLayout renders CATEGORIES, then TAGS).
CATEGORIES == <<nsfw, eqg, anthro>>
TAGS == <<mare, stallion, canon>>
FilterButtons == CATEGORIES \o TAGS

\* The buttons clicked in the session specification.
SessionButtons == {eqg}

\* The literal ['nsfw', 'anthro', 'eqg'] of the filter and of updateTagCounts.
CategoryIds == <<nsfw, anthro, eqg>>

\* Tag spellings found in the filter index (the remote data is free to
\* capitalise them).
MareCap == <<"M", "a", "r", "e">>
MareUpper == <<"M", "A", "R", "E">>

\* Catalog keys (paths). KeyAXs and KeyAXb differ only in the separator.
KeyC == <<"c">>
KeyB == <<"b">>
KeyAXs == <<"a", Slash, "x">>
KeyAXb == <<"a", Backslash, "x">>
KeyOrder == <<KeyC, KeyB, KeyAXs, KeyAXb>>
Keys == {KeyOrder[i] : i \in 1..Len(KeyOrder)}

\* Raw catalog values: what mares.json maps a path to.
ValidValue ==
    [type |-> "object", name |-> Some(<<"A", "l">>), author |-> Some(<<"Z", "e", "d">>),
     error |-> None, dateupdate |-> Some(2), datecreate |-> Some(1)]
NullValue ==
    [type |-> "null", name |-> None, author |-> None,
     error |-> None, dateupdate |-> None, datecreate |-> None]
StringValue ==
    [type |-> "string", name |-> None, author |-> None,
     error |-> None, dateupdate |-> None, datecreate |-> None]
NoNameValue == [ValidValue EXCEPT !.name = None]
NoAuthorValue == [ValidValue EXCEPT !.author = None]
ErrorValue == [ValidValue EXCEPT !.error = Some(<<"4", "0", "4">>)]
InvalidValues == {NullValue, StringValue, NoNameValue, NoAuthorValue, ErrorValue}
Values == {ValidValue} \cup InvalidValues

\* Truthiness of an optional string property: present and not ''.
truthy(opt) == opt # None /\ opt[1] # <<>>

\* ------------------------------------------------------------------------
\* The filter index (assets/filters.json)
\* ------------------------------------------------------------------------
\* filters[category] || []
categoryPaths(filters, category) ==
    IF category \in DOMAIN filters.lists THEN filters.lists[category] ELSE <<>>

\* categoryPaths.some(path => path.replace(/\\/g, '/') === normalizedKey)
inCategory(filters, category, normalizedKey) ==
    LET isKey(path) == normalizeSlashes(path) = normalizedKey
    IN  some(categoryPaths(filters, category), isKey)

\* Faulty variant of resolveTags: the raw key is looked up instead of its
\* forward-slash form.
resolveTagsRawKey(filters, key) ==
    LET backslashKey == backslashForm(key)
    IN  IF key \in DOMAIN filters.tags THEN filters.tags[key]
        ELSE IF backslashKey \in DOMAIN filters.tags THEN filters.tags[backslashKey]
        ELSE <<>>

\* filters.tags[normalizedKey] || filters.tags[backslashKey] || []
\* (an array, even an empty one, is truthy: the first key present wins).
resolveTags(filters, key) ==
    LET normalizedKey == normalizeSlashes(key)
        backslashKey == backslashForm(key)
    IN  IF normalizedKey \in DOMAIN filters.tags THEN filters.tags[normalizedKey]
        ELSE IF backslashKey \in DOMAIN filters.tags THEN filters.tags[backslashKey]
        ELSE <<>>

\* selectedTags.filter(tag => ['nsfw', 'anthro', 'eqg'].includes(tag))
selectedCategories(selTags) ==
    LET isCat(tag) == includes(CategoryIds, tag) IN SelectSeq(selTags, isCat)

\* selectedTags.filter(tag => !['nsfw', 'anthro', 'eqg'].includes(tag))
selectedRegularTags(selTags) ==
    LET isReg(tag) == ~includes(CategoryIds, tag) IN SelectSeq(selTags, isReg)

\* Faulty variant of isValidEntry: the error property is not looked at.
isValidEntryIgnoringError(value) ==
    ~(\/ value.type = "null"
      \/ value.type # "object"
      \/ ~truthy(value.name)
      \/ ~truthy(value.author))

\* Basic validation of a catalog value (negated: TRUE when the entry is kept).
isValidEntry(value) ==
    ~(\/ value.type = "null"
      \/ value.type # "object"
      \/ ~truthy(value.name)
      \/ ~truthy(value.author)
      \/ truthy(value.error))

\* ['nsfw', 'anthro', 'eqg'].some(category => ... in that category's list)
isInAnyCategory(filters, normalizedKey) ==
    LET inIt(category) == inCategory(filters, category, normalizedKey)
    IN  some(CategoryIds, inIt)

\* selectedCategories.some(category => ... in that category's list)
isInSelectedCategory(filters, selTags, normalizedKey) ==
    LET inIt(category) == inCategory(filters, category, normalizedKey)
    IN  some(selectedCategories(selTags), inIt)

\* Faulty variant of hasEveryRegularTag: one selected tag is enough (some for every).
hasSomeRegularTag(cardTags, selTags) ==
    LET hasTag(tag) ==
            LET same(cardTag) == toLowerCase(cardTag) = toLowerCase(tag)
            IN  some(cardTags, same)
    IN  some(selectedRegularTags(selTags), hasTag)

\* selectedRegularTags.every(tag => cardTags.some(cardTag =>
\*     cardTag.toLowerCase() === tag.toLowerCase()))
hasEveryRegularTag(cardTags, selTags) ==
    LET hasTag(tag) ==
            LET same(cardTag) == toLowerCase(cardTag) = toLowerCase(tag)
            IN  some(cardTags, same)
    IN  every(selectedRegularTags(selTags), hasTag)

\* Faulty variant of nsfwHidden: the listed paths are compared as they are spelled.
nsfwHiddenUnnormalized(filters, showNSFW, normalizedKey) ==
    ~showNSFW /\ includes(categoryPaths(filters, nsfw), normalizedKey)

\* The NSFW step of index.js: TRUE when the entry is dropped by it.
nsfwHidden(filters, showNSFW, normalizedKey) ==
    ~showNSFW /\ inCategory(filters, nsfw, normalizedKey)

\* The category step of index.js: TRUE when the entry is dropped by it.
categoryDropped(filters, selTags, normalizedKey) ==
    /\ Len(selectedCategories(selTags)) > 0
    /\ ~isInSelectedCategory(filters, selTags, normalizedKey)

\* The regular-tag step: TRUE when the entry passes it.
regularTagsPass(filters, selTags, key) ==
    \/ Len(selectedRegularTags(selTags)) = 0
    \/ hasEveryRegularTag(resolveTags(filters, key), selTags)

\* The callback of Object.entries(maresData).filter(...) in index.js.
keepEntry(key, value, filters, selTags, showNSFW) ==
    LET normalizedKey == normalizeSlashes(key)
    IN  /\ isValidEntry(value)
        /\ ~nsfwHidden(filters, showNSFW, normalizedKey)
        /\ ~categoryDropped(filters, selTags, normalizedKey)
        /\ regularTagsPass(filters, selTags, key)

\* The category step of part_001: TRUE when the entry is dropped by it.
categoryDroppedP1(filters, selTags, normalizedKey) ==
    \/ /\ Len(selectedCategories(selTags)) = 0
       /\ isInAnyCategory(filters, normalizedKey)
    \/ /\ isInAnyCategory(filters, normalizedKey)
       /\ ~isInSelectedCategory(filters, selTags, normalizedKey)

\* The callback of Object.entries(maresData).filter(...) in part_001
\* (no NSFW setting in that iteration).
keepEntryP1(key, value, filters, selTags) ==
    LET normalizedKey == normalizeSlashes(key)
    IN  /\ isValidEntry(value)
        /\ ~categoryDroppedP1(filters, selTags, normalizedKey)
        /\ regularTagsPass(filters, selTags, key)


\* ------------------------------------------------------------------------
\* Transformation, tag counts, sorting, pagination
\* ------------------------------------------------------------------------
\* The callback of .map(...): the record built from a surviving entry.
\* value.dateupdate || new Date().toISOString(), and
\* value.datecreate || value.dateupdate || new Date().toISOString().
transformEntry(key, value, filters, now) ==
    [path |-> key,
     name |-> value.name[1],
     author |-> value.author[1],
     dateupdate |-> IF value.dateupdate # None THEN value.dateupdate ELSE Some(now),
     datecreate |-> IF value.datecreate # None THEN value.datecreate
                    ELSE IF value.dateupdate # None THEN value.dateupdate
                    ELSE Some(now),
     tags |-> resolveTags(filters, key)]

\* The record of part_001: no default for datecreate (it is only there when
\* the raw value carries it).
transformEntryP1(key, value, filters, now) ==
    [path |-> key,
     name |-> value.name[1],
     author |-> value.author[1],
     dateupdate |-> IF value.dateupdate # None THEN value.dateupdate ELSE Some(now),
     datecreate |-> value.datecreate,
     tags |-> resolveTags(filters, key)]

\* Object.entries(maresData).filter(keep).map(transform) of index.js.
filterAndMap(entries, filters, selTags, showNSFW, now) ==
    LET keep(e) == keepEntry(e[1], e[2], filters, selTags, showNSFW)
        kept == SelectSeq(entries, keep)
    IN  [i \in 1..Len(kept) |-> transformEntry(kept[i][1], kept[i][2], filters, now)]

\* Object.entries(maresData).filter(keep).map(transform) of part_001.
filterAndMapP1(entries, filters, selTags, now) ==
    LET keep(e) == keepEntryP1(e[1], e[2], filters, selTags)
        kept == SelectSeq(entries, keep)
    IN  [i \in 1..Len(kept) |-> transformEntryP1(kept[i][1], kept[i][2], filters, now)]

\* counts[k] = (counts[k] || 0) + 1
increment(counts, k) ==
    IF k \in DOMAIN counts THEN [counts EXCEPT ![k] = @ + 1] ELSE counts @@ (k :> 1)

\* char.tags.forEach(tag => ...), from position i on.
RECURSIVE countTags(_, _, _)
countTags(counts, tags, i) ==
    IF i > Len(tags) THEN counts
    ELSE countTags(increment(counts, tags[i]), tags, i + 1)

\* ['nsfw', 'anthro', 'eqg'].forEach(category => ...), from position i on.
RECURSIVE countCategories(_, _, _, _)
countCategories(counts, char, filters, i) ==
    IF i > Len(CategoryIds) THEN counts
    ELSE countCategories(
            IF inCategory(filters, CategoryIds[i], normalizeSlashes(char.path))
            THEN increment(counts, CategoryIds[i]) ELSE counts,
            char, filters, i + 1)

\* characters.forEach(char => ...), from position i on.
RECURSIVE countCharacters(_, _, _, _)
countCharacters(counts, characters, filters, i) ==
    IF i > Len(characters) THEN counts
    ELSE countCharacters(
            countCategories(countTags(counts, characters[i].tags, 1),
                            characters[i], filters, 1),
            characters, filters, i + 1)

\* Faulty variant of updateTagCounts: the categories are not counted.
updateTagCountsTagsOnly(characters, filters) ==
    LET RECURSIVE tagsFrom(_, _)
        tagsFrom(counts, i) ==
            IF i > Len(characters) THEN counts
            ELSE tagsFrom(countTags(counts, characters[i].tags, 1), i + 1)
    IN  tagsFrom(EmptyMap, 1)

\* updateTagCounts: tagCounts = {} and then one pass over the characters.
updateTagCounts(characters, filters) == countCharacters(EmptyMap, characters, filters, 1)

\* Collation order of the letters of the modelled names.
Alphabet == <<"a", "b", "c", "d", "e", "l", "m", "r", "z">>
primaryRank(c) ==
    IF \E i \in 1..Len(Alphabet) : Alphabet[i] = LowerChar(c)
    THEN CHOOSE i \in 1..Len(Alphabet) : Alphabet[i] = LowerChar(c)
    ELSE 0

\* Lexicographic comparison of two sequences of ranks: -1, 0 or 1.
RECURSIVE compareRanks(_, _, _)
compareRanks(a, b, i) ==
    IF i > Len(a) /\ i > Len(b) THEN 0
    ELSE IF i > Len(a) THEN -1
    ELSE IF i > Len(b) THEN 1
    ELSE IF a[i] < b[i] THEN -1
    ELSE IF a[i] > b[i] THEN 1
    ELSE compareRanks(a, b, i + 1)

\* a.localeCompare(b): letters first, and between strings with the same
\* letters the lower-case spelling first.
localeCompare(a, b) ==
    LET caseRank(c) == IF LowerChar(c) = c THEN 0 ELSE 1
        primary == compareRanks([i \in 1..Len(a) |-> primaryRank(a[i])],
                                [i \in 1..Len(b) |-> primaryRank(b[i])], 1)
    IN  IF primary # 0 THEN primary
        ELSE compareRanks([i \in 1..Len(a) |-> caseRank(a[i])],
                          [i \in 1..Len(b) |-> caseRank(b[i])], 1)

\* new Date(x) - new Date(y): NaN when either date is missing, which the
\* sort treats as 0.
dateDifference(x, y) == IF x = None \/ y = None THEN 0 ELSE x[1] - y[1]

\* Faulty variant of compareCharacters: the dates ascend (oldest first).
compareCharactersOldestFirst(sortType, a, b) ==
    CASE sortType = "name" -> localeCompare(a.name, b.name)
      [] sortType = "author" -> localeCompare(a.author, b.author)
      [] sortType = "datecreate" -> dateDifference(a.datecreate, b.datecreate)
      [] OTHER -> dateDifference(a.dateupdate, b.dateupdate)

\* The comparator of applySorting for the value of #sortSelect.
compareCharacters(sortType, a, b) ==
    CASE sortType = "name" -> localeCompare(a.name, b.name)
      [] sortType = "author" -> localeCompare(a.author, b.author)
      [] sortType = "datecreate" -> dateDifference(b.datecreate, a.datecreate)
      [] OTHER -> dateDifference(b.dateupdate, a.dateupdate)

\* Stable insertion of x into the sorted sequence: after every element that
\* does not compare greater than x.
RECURSIVE insertSorted(_, _, _)
insertSorted(sorted, x, sortType) ==
    IF sorted = <<>> THEN <<x>>
    ELSE IF compareCharacters(sortType, sorted[Len(sorted)], x) <= 0
         THEN Append(sorted, x)
         ELSE Append(insertSorted(SubSeq(sorted, 1, Len(sorted) - 1), x, sortType),
                     sorted[Len(sorted)])

\* Array.prototype.sort with the comparator (a stable sort), first i elements.
RECURSIVE sortPrefix(_, _, _)
sortPrefix(characters, i, sortType) ==
    IF i = 0 THEN <<>>
    ELSE insertSorted(sortPrefix(characters, i - 1, sortType), characters[i], sortType)

\* Faulty variant of applySorting: a sort that reverses the records the
\* comparator calls equal.
applySortingReversedTies(characters, sortSelect) ==
    IF sortSelect = None THEN characters
    ELSE sortPrefix([i \in 1..Len(characters) |-> characters[Len(characters) + 1 - i]],
                    Len(characters), sortSelect[1])

\* applySorting: no #sortSelect element (None) leaves the order alone.
applySorting(characters, sortSelect) ==
    IF sortSelect = None THEN characters
    ELSE sortPrefix(characters, Len(characters), sortSelect[1])

\* Faulty variant of paginateResults: the page number is taken as 0-based.
paginateResultsZeroBased(characters, page, findCount) ==
    LET start == page * findCount
        end == start + findCount
        last == IF end < Len(characters) THEN end ELSE Len(characters)
    IN  IF start >= Len(characters) THEN <<>> ELSE SubSeq(characters, start + 1, last)

\* paginateResults: characters.slice(start, end).
paginateResults(characters, page, findCount) ==
    LET start == (page - 1) * findCount
        end == start + findCount
        last == IF end < Len(characters) THEN end ELSE Len(characters)
    IN  IF start >= Len(characters) THEN <<>> ELSE SubSeq(characters, start + 1, last)

\* Faulty variant of applySearchTerm: the path is searched as well.
applySearchTermWithPath(characters, searchTerm) ==
    IF searchTerm = <<>> THEN characters
    ELSE LET term == toLowerCase(searchTerm)
             matches(char) == \/ strIncludes(toLowerCase(char.name), term)
                              \/ strIncludes(toLowerCase(char.author), term)
                              \/ strIncludes(toLowerCase(char.path), term)
         IN  SelectSeq(characters, matches)

\* The search-term step: characters.filter(char => name or author includes term).
applySearchTerm(characters, searchTerm) ==
    IF searchTerm = <<>> THEN characters
    ELSE LET term == toLowerCase(searchTerm)
             matches(char) == \/ strIncludes(toLowerCase(char.name), term)
                              \/ strIncludes(toLowerCase(char.author), term)
         IN  SelectSeq(characters, matches)

\* What one run of the pipeline of index.js (lines 520-611) produces from
\* the pair (maresData, filters): the stored records, the counts, the page.
\* Without a search term the sorted array is the stored one (the sort is
\* in place); with a term the sort works on the array .filter returned.
runPipeline(maresData, filters, selTags, showNSFW, opts, sortSelect, findCount, now) ==
    LET characters == filterAndMap(maresData.entries, filters, selTags, showNSFW, now)
        sorted == applySorting(applySearchTerm(characters, opts.searchTerm), sortSelect)
    IN  [mlpcharacters |-> IF opts.searchTerm = <<>> THEN sorted ELSE characters,
         tagCounts |-> updateTagCounts(characters, filters),
         page |-> paginateResults(sorted, opts.page, findCount)]

\* The locals of the same run: the array after .filter().map() (survivors),
\* after the search-term step (filtered), after applySorting (sorted), and
\* the returned slice (characters).
pipelineLocals(maresData, filters, selTags, showNSFW, opts, sortSelect, findCount, now) ==
    LET survivors == filterAndMap(maresData.entries, filters, selTags, showNSFW, now)
        filtered == applySearchTerm(survivors, opts.searchTerm)
        sorted == applySorting(filtered, sortSelect)
    IN  [called |-> TRUE, searchTerm |-> opts.searchTerm, page |-> opts.page,
         survivors |-> survivors, filtered |-> filtered, sorted |-> sorted,
         characters |-> paginateResults(sorted, opts.page, findCount)]

\* The same for part_001 (lines 399-486).
runPipelineP1(maresData, filters, selTags, opts, sortSelect, findCount, now) ==
    LET characters == filterAndMapP1(maresData.entries, filters, selTags, now)
        sorted == applySorting(applySearchTerm(characters, opts.searchTerm), sortSelect)
    IN  [mlpcharacters |-> IF opts.searchTerm = <<>> THEN sorted ELSE characters,
         tagCounts |-> updateTagCounts(characters, filters),
         page |-> paginateResults(sorted, opts.page, findCount)]

\* ------------------------------------------------------------------------
\* The modelled remote data
\* ------------------------------------------------------------------------
\* A choice, for every key, of the value mares.json maps it to (None: the
\* key is not in the catalog).
Assignments ==
    {f \in [Keys -> {None} \cup {Some(v) : v \in Values}] :
        /\ Cardinality({k \in Keys : f[k] # None}) <= MaxEntries
        /\ Cardinality({k \in Keys : f[k] # None /\ f[k] # Some(ValidValue)}) <= MaxInvalid}

\* Object.entries of the catalog an assignment stands for.
catalogOf(f) ==
    LET present(k) == f[k] # None
        ks == SelectSeq(KeyOrder, present)
    IN  [i \in 1..Len(ks) |-> <<ks[i], f[ks[i]][1]>>]

Catalogs == {catalogOf(f) : f \in Assignments}

\* Filter indexes: category lists and tag lists, in both separator styles.
FiltersNone == [lists |-> EmptyMap, tags |-> EmptyMap]
FiltersScenario ==
    [lists |-> (nsfw :> <<KeyB>>) @@ (eqg :> <<KeyAXb>>),
     tags |-> (KeyC :> <<mare>>) @@ (KeyB :> <<mare>>) @@ (KeyAXs :> <<stallion>>)]
FiltersMixed ==
    [lists |-> (nsfw :> <<KeyAXs>>) @@ (eqg :> <<KeyB>>) @@ (anthro :> <<KeyB, KeyC>>),
     tags |-> (KeyAXb :> <<MareCap, canon>>) @@ (KeyB :> <<MareUpper, stallion>>)]
FiltersOverlap ==
    [lists |-> (nsfw :> <<KeyB>>) @@ (eqg :> <<KeyB>>) @@ (anthro :> <<>>),
     tags |-> (KeyAXs :> <<>>) @@ (KeyAXb :> <<mare>>) @@ (KeyC :> <<mare, canon>>)]
FiltersBothForms ==
    [lists |-> (nsfw :> <<KeyAXb, KeyC>>),
     tags |-> (KeyAXs :> <<mare>>) @@ (KeyAXb :> <<canon>>) @@ (KeyC :> <<mare, mare, eqg>>)]
\* The filter index of the session: as FiltersScenario, with a tag that is
\* listed twice and a tag that is spelled like a category.
FiltersSession ==
    [lists |-> (nsfw :> <<KeyB>>) @@ (eqg :> <<KeyAXb>>),
     tags |-> (KeyC :> <<mare, mare>>) @@ (KeyB :> <<mare>>) @@ (KeyAXs :> <<stallion, eqg>>)]
FilterIndexes ==
    {FiltersNone, FiltersScenario, FiltersMixed, FiltersOverlap, FiltersBothForms}

\* The selections the filter buttons can produce: the selected buttons in
\* document order.
Selections ==
    {SelectSeq(FilterButtons, LAMBDA b : b \in S) :
        S \in {T \in SUBSET {FilterButtons[i] : i \in 1..Len(FilterButtons)} :
                  Cardinality(T) <= MaxSelected}}

\* defaultSettings (index.js:68-75), the fields the model reads.
findCountDefault == 30
defaultSettings == [findCount |-> findCountDefault, showNSFW |-> FALSE, cacheEnabled |-> TRUE]

\* ------------------------------------------------------------------------
\* State
\* ------------------------------------------------------------------------
VARIABLES
    server,          \* what the endpoint serves: [entries, filters]
    clock,           \* Date.now()
    settings,        \* extension_settings.mlpchag
    selectedTags,    \* let selectedTags
    buttons,         \* the filter buttons that carry the class 'selected'
    mlpcharacters,   \* let mlpcharacters
    tagCounts,       \* let tagCounts
    cachedData,      \* let cachedData: None, or <<maresData, filters>>
    lastFetchTime,   \* let lastFetchTime
    searches,        \* the invocations of fetchCharactersBySearch that went to the network
    view,            \* characterListContainer.innerHTML
    pageNumber,      \* the text of #pageNumber
    popup,           \* "closed", "loading" (first search awaited), "ready" (handlers attached)
    lastRun,         \* inputs and page of the latest pipeline run of index.js
    p1,              \* part_001: its mlpcharacters, tagCounts and returned page
    stage,           \* filter specification: which program has run on the drawn input
    sortSelect,      \* the value of #sortSelect
    searchInput,     \* the value of #characterSearchInput
    returned,        \* what the latest call of fetchCharactersBySearch was given and returned
    currentPage,     \* the currentPage of the handlers of setupNavigationHandlers
    debounce,        \* the timer of the debounced handleSearch is running
    lastRequest,     \* the latest search a user action asked for: its cause and its page
    batchMode,       \* let batchMode
    selectedPaths,   \* let selectedPaths
    loops,           \* the runs of the for...of loop of the Download-selected handler
    downloads,       \* the calls of downloadCharacter that wait for the network
    toasts,          \* the toastr notifications of downloadCharacter
    failed,          \* the downloads that failed
    direct,           \* the number of clicks on a download button
    listeners,       \* the click listeners on the list container: of index.js, of part_001
    checked          \* the paths of the checkboxes of class char-select that are checked

vars ==
    <<server, clock, settings, selectedTags, buttons, mlpcharacters, tagCounts, cachedData,
      lastFetchTime, searches, view, pageNumber, popup, lastRun, p1, stage,
      sortSelect, searchInput, returned, currentPage, debounce, lastRequest,
      batchMode, selectedPaths, loops, downloads, toasts, failed, direct, listeners,
      checked>>

\* The variables only the page specification changes.
pageVars == <<sortSelect, searchInput, returned>>

\* The variables only the handlers of the navigation specification change.
navVars == <<currentPage, debounce>>

\* The variables only the handlers of the batch specification change.
batchVars == <<batchMode, selectedPaths, loops, downloads, toasts, failed, direct, checked>>

\* No user action has asked for a search. afterChange: the request came from
\* Previous/Next and the request before it from a change.
NoRequest == [by |-> "none", page |-> 1, afterChange |-> FALSE]

\* const CACHE_DURATION = 5 * 60 * 1000
CACHE_DURATION == 5 * 60 * 1000

\* The clock starts at an instant later than CACHE_DURATION after the epoch
\* and advances in steps of half a cache duration.
ClockStart == CACHE_DURATION
ClockStep == CACHE_DURATION \div 2

\* The two resources of one search: MARES_ENDPOINT and assets/filters.json.
MaresEndpoint == "mares.json"
FiltersEndpoint == "filters.json"
Endpoints == {MaresEndpoint, FiltersEndpoint}

\* The options of the first search of a popup: { searchTerm: '', page: 1 },
\* with #sortSelect on its first option.
FirstSearch == [searchTerm |-> <<>>, page |-> 1]
SortSelectDefault == Some("dateupdate")

\* What an invocation found when it started: whether caching was enabled,
\* whether a pair was cached, and whether the last fetch was less than
\* CACHE_DURATION ago.
NoSnapshot == [cacheEnabled |-> FALSE, hasPair |-> FALSE, fresh |-> FALSE]
snapshot(cacheEnabled, cached, now, lastFetch) ==
    [cacheEnabled |-> cacheEnabled, hasPair |-> cached # None,
     fresh |-> now - lastFetch < CACHE_DURATION]

\* No pipeline has run yet.
NoRun ==
    [ran |-> FALSE, id |-> 0, started |-> NoSnapshot, requests |-> <<>>, received |-> {},
     maresData |-> [req |-> 0, at |-> 0, entries |-> <<>>],
     filters |-> [req |-> 0, at |-> 0, lists |-> EmptyMap, tags |-> EmptyMap],
     selectedTags |-> <<>>, showNSFW |-> FALSE, opts |-> FirstSearch, page |-> <<>>]

\* fetchCharactersBySearch has not been called.
NoReturn ==
    [called |-> FALSE, searchTerm |-> <<>>, page |-> 1, survivors |-> <<>>,
     filtered |-> <<>>, sorted |-> <<>>, characters |-> <<>>]

NoP1 ==
    [ran |-> FALSE, maresData |-> [entries |-> <<>>], filters |-> FiltersNone,
     selectedTags |-> <<>>, mlpcharacters |-> <<>>, tagCounts |-> EmptyMap, page |-> <<>>]

\* A slot of searches that no invocation has used.
UnusedSearch ==
    [pc |-> "unused", now |-> 0, opts |-> FirstSearch, awaited |-> FALSE,
     started |-> NoSnapshot, requests |-> <<>>, responses |-> EmptyMap, bodies |-> {}]

SearchIds == 1..MaxSearches

\* A run of the loop of the Download-selected handler that has not started.
\* arr: the array the loop iterates; shared: that array is still the one
\* selectedPaths refers to; next: the position the iterator stands at.
NoLoop == [pc |-> "unused", arr |-> <<>>, shared |-> FALSE, next |-> 1]
BatchIds == 1..MaxBatches

\* The states of the list container.
ViewClosed == [kind |-> "closed", by |-> 0, items |-> <<>>]
ViewSpinner(id) == [kind |-> "spinner", by |-> id, items |-> <<>>]
ViewList(id, page) == [kind |-> "list", by |-> id, items |-> page]
ViewNoCharacters(id) == [kind |-> "no-characters-found", by |-> id, items |-> <<>>]
ViewError(id) == [kind |-> "error", by |-> id, items |-> <<>>]

\* ------------------------------------------------------------------------
\* The catalog fetcher and the search execution of index.js
\* ------------------------------------------------------------------------
\* The mutable state a search reads and writes, as one record.
current ==
    [settings |-> settings, selectedTags |-> selectedTags, mlpcharacters |-> mlpcharacters,
     tagCounts |-> tagCounts, cachedData |-> cachedData, lastFetchTime |-> lastFetchTime,
     searches |-> searches, view |-> view, pageNumber |-> pageNumber, popup |-> popup,
     lastRun |-> lastRun, overflow |-> FALSE,
     sortSelect |-> sortSelect, searchInput |-> searchInput, lastRequest |-> lastRequest,
     listeners |-> listeners]

\* The next state holds the record st (and no invocation had to be refused
\* for want of a slot).
become(st) ==
    /\ ~st.overflow
    /\ settings' = st.settings
    /\ selectedTags' = st.selectedTags
    /\ mlpcharacters' = st.mlpcharacters
    /\ tagCounts' = st.tagCounts
    /\ cachedData' = st.cachedData
    /\ lastFetchTime' = st.lastFetchTime
    /\ searches' = st.searches
    /\ view' = st.view
    /\ pageNumber' = st.pageNumber
    /\ popup' = st.popup
    /\ lastRun' = st.lastRun
    /\ lastRequest' = st.lastRequest
    /\ listeners' = st.listeners

\* Faulty variant of shouldUseCache: the age test is reversed.
shouldUseCacheReversed(cacheEnabled, cached, now, lastFetch) ==
    cacheEnabled /\ cached # None /\ (now - lastFetch >= CACHE_DURATION)

\* extension_settings.mlpchag.cacheEnabled && cachedData &&
\*     (now - lastFetchTime < CACHE_DURATION)
shouldUseCache(cacheEnabled, cached, now, lastFetch) ==
    cacheEnabled /\ cached # None /\ (now - lastFetch < CACHE_DURATION)

\* Faulty variant of requestsIssued: the filter index is not requested.
requestsIssuedCatalogOnly == <<MaresEndpoint>>

\* The fetches of the Promise.all at index.js:497-500.
requestsIssued == <<MaresEndpoint, FiltersEndpoint>>

\* Faulty variant of promiseAll: the first settled promise resumes the caller.
promiseAny(settled) == settled # {}

\* Promise.all: the caller resumes when every promise has settled.
promiseAll(settled) == settled = Endpoints

\* Faulty variant of responsesOk: only the catalog response is tested.
responsesOkCatalogOnly(responses) ==
    MaresEndpoint \in DOMAIN responses => responses[MaresEndpoint]

\* Neither `!maresResponse.ok` nor `!filtersResponse.ok`.
responsesOk(responses) ==
    \A e \in DOMAIN responses : responses[e]

\* Faulty variant of updateCache: a catalog is stored next to the filter index the
\* cache already held.
updateCacheCatalogOnly(st, maresData, filters, now) ==
    [st EXCEPT !.cachedData = IF st.cachedData = None THEN <<maresData, filters>>
                              ELSE <<maresData, st.cachedData[2]>>,
               !.lastFetchTime = now]

\* cachedData = [maresData, filters]; lastFetchTime = now;
updateCache(st, maresData, filters, now) ==
    [st EXCEPT !.cachedData = <<maresData, filters>>, !.lastFetchTime = now]

\* The smallest slot no invocation has used (0: none is left).
freeSearch(st) ==
    IF \E i \in SearchIds : st.searches[i].pc = "unused"
    THEN CHOOSE i \in SearchIds :
            /\ st.searches[i].pc = "unused"
            /\ \A j \in SearchIds : st.searches[j].pc = "unused" => i <= j
    ELSE 0

\* The resolution of the promise awaited by initializeSearchAndNavigation:
\* the handlers of the popup are attached.
settle(st, awaited) == IF awaited THEN [st EXCEPT !.popup = "ready"] ELSE st

\* Faulty variant of isFirstPage: the back-off ends below page 1.
isFirstPageZero(opts) == opts.page = 0

\* Faulty variant of isFirstPage: every empty page is shown as it is.
isFirstPageAlways(opts) == opts.page >= 1

\* handleNoSearchResults: `options.page === 1`, the test that ends the
\* back-off.
isFirstPage(opts) == opts.page = 1

\* No list container, and the container of a popup that has just been built:
\* displayCharactersInListViewPopup of index.js attaches handleCharacterListClick
\* to a container that has no dataset.listenerAttached (index.js:779-783), the
\* one of part_001 attaches nothing (part_001:651).
NoContainer == [indexJs |-> 0, part001 |-> 0]
NewContainer == [indexJs |-> 1, part001 |-> 0]

\* updateCharacterListInView has put a list into the container: the function
\* of part_001 ends with characterListContainer.addEventListener('click', ...)
\* (part_001:287-298), the one of index.js attaches nothing (index.js:328-331).
\* A count of MaxListeners stands for MaxListeners or more.
rendered(l) == [l EXCEPT !.part001 = IF @ < MaxListeners THEN @ + 1 ELSE @]

RECURSIVE executeCharacterSearch(_, _, _)
RECURSIVE completeSearch(_, _, _, _, _, _)

\* fetchCharactersBySearch from the pair on (index.js:520-611), and what
\* executeCharacterSearch and handleNoSearchResults do with the page.
\* run: [started, requests, received, maresData, filters] of the invocation.
completeSearch(st, run, opts, awaited, id, now) ==
    LET r == runPipeline(run.maresData, run.filters, st.selectedTags,
                         st.settings.showNSFW, opts, st.sortSelect,
                         st.settings.findCount, now)
        stored ==
            [st EXCEPT !.mlpcharacters = r.mlpcharacters,
                       !.tagCounts = r.tagCounts,
                       !.lastRun = [ran |-> TRUE, id |-> id, started |-> run.started,
                                    requests |-> run.requests, received |-> run.received,
                                    maresData |-> run.maresData, filters |-> run.filters,
                                    selectedTags |-> st.selectedTags,
                                    showNSFW |-> st.settings.showNSFW, opts |-> opts,
                                    page |-> r.page]]
    IN  IF r.page # <<>>
        THEN settle([stored EXCEPT !.view = ViewList(id, r.page),
                                   !.listeners = rendered(@)], awaited)
        ELSE IF isFirstPage(opts)
        THEN settle([stored EXCEPT !.view = ViewNoCharacters(id)], awaited)
        ELSE settle(executeCharacterSearch(
                        [stored EXCEPT !.pageNumber = opts.page - 1],
                        [opts EXCEPT !.page = opts.page - 1], FALSE),
                    awaited)

\* Faulty variant of executeCharacterSearch: a new invocation that goes to
\* the network aborts the invocations that wait for it.
executeCharacterSearchAborting(st, opts, awaited) ==
    LET now == clock
        started == snapshot(st.settings.cacheEnabled, st.cachedData, now,
                            st.lastFetchTime)
        id == freeSearch(st)
        aborted == [i \in SearchIds |->
                       IF st.searches[i].pc \in {"awaitResponses", "awaitBodies"}
                       THEN [UnusedSearch EXCEPT !.pc = "aborted"]
                       ELSE st.searches[i]]
    IN  IF shouldUseCache(st.settings.cacheEnabled, st.cachedData, now, st.lastFetchTime)
        THEN completeSearch(st,
                            [started |-> started, requests |-> <<>>, received |-> {},
                             maresData |-> st.cachedData[1], filters |-> st.cachedData[2]],
                            opts, awaited, 0, now)
        ELSE IF id = 0 THEN [st EXCEPT !.overflow = TRUE]
        ELSE [st EXCEPT
                !.view = ViewSpinner(id),
                !.searches = [aborted EXCEPT ![id] =
                    [pc |-> "awaitResponses", now |-> now, opts |-> opts,
                     awaited |-> awaited, started |-> started,
                     requests |-> requestsIssued, responses |-> EmptyMap, bodies |-> {}]]]

\* executeCharacterSearch(options) up to its first suspension: the cache
\* test of fetchCharactersBySearch, and then either the whole search on the
\* cached pair or the two requests of an invocation that waits for them.
executeCharacterSearch(st, opts, awaited) ==
    LET now == clock
        started == snapshot(st.settings.cacheEnabled, st.cachedData, now,
                            st.lastFetchTime)
        id == freeSearch(st)
    IN  IF shouldUseCache(st.settings.cacheEnabled, st.cachedData, now, st.lastFetchTime)
        THEN completeSearch(st,
                            [started |-> started, requests |-> <<>>, received |-> {},
                             maresData |-> st.cachedData[1], filters |-> st.cachedData[2]],
                            opts, awaited, 0, now)
        ELSE IF id = 0 THEN [st EXCEPT !.overflow = TRUE]
        ELSE [st EXCEPT
                !.view = ViewSpinner(id),
                !.searches[id] =
                    [pc |-> "awaitResponses", now |-> now, opts |-> opts,
                     awaited |-> awaited, started |-> started,
                     requests |-> requestsIssued, responses |-> EmptyMap, bodies |-> {}]]

\* Faulty variant of failSearch: the catch empties the stored result and the
\* cache.
failSearchClearing(st, id) ==
    settle([st EXCEPT !.view = ViewError(id),
                      !.searches[id] = [UnusedSearch EXCEPT !.pc = "failed"],
                      !.mlpcharacters = <<>>,
                      !.tagCounts = EmptyMap,
                      !.cachedData = None,
                      !.lastFetchTime = 0],
           st.searches[id].awaited)

\* Faulty variant of failSearch: the failed search is started again.
failSearchRetry(st, id) ==
    executeCharacterSearch(
        settle([st EXCEPT !.view = ViewError(id),
                          !.searches[id] = [UnusedSearch EXCEPT !.pc = "failed"]],
               st.searches[id].awaited),
        st.searches[id].opts, FALSE)

\* The throw of index.js:502-507, the catch of fetchCharactersBySearch and
\* the catch of executeCharacterSearch.
failSearch(st, id) ==
    settle([st EXCEPT !.view = ViewError(id),
                      !.searches[id] = [UnusedSearch EXCEPT !.pc = "failed"]],
           st.searches[id].awaited)

\* The bodies the server answers request id with.
maresBody(id, at) == [req |-> id, at |-> at, entries |-> server.entries]
filtersBody(id, at) ==
    [req |-> id, at |-> at, lists |-> server.filters.lists, tags |-> server.filters.tags]

\* resetPageAndSearch: #pageNumber shows 1 and a search for page 1 of the
\* term in the search box starts.
resetPageAndSearch(st) ==
    executeCharacterSearch(
        [st EXCEPT !.pageNumber = 1,
                   !.lastRequest = [by |-> "change", page |-> 1, afterChange |-> FALSE]],
        [searchTerm |-> st.searchInput, page |-> 1], FALSE)

\* ------------------------------------------------------------------------
\* Session specification: the popup, its handlers and the network
\* ------------------------------------------------------------------------
\* The catalog and the filter index of the session: the three entries
\* A (uncategorized), B (nsfw) and C (eqg).
SessionCatalog == <<<<KeyC, ValidValue>>, <<KeyB, ValidValue>>, <<KeyAXs, ValidValue>>>>

Init ==
    /\ server = [entries |-> SessionCatalog, filters |-> FiltersSession]
    /\ clock = ClockStart
    /\ settings \in {[defaultSettings EXCEPT !.findCount = SessionFindCount,
                                             !.cacheEnabled = b] : b \in BOOLEAN}
    /\ selectedTags = <<>>
    /\ buttons = {}
    /\ mlpcharacters = <<>>
    /\ tagCounts = EmptyMap
    /\ cachedData = None
    /\ lastFetchTime = 0
    /\ searches = [i \in SearchIds |-> UnusedSearch]
    /\ view = ViewClosed
    /\ pageNumber = 1
    /\ popup = "closed"
    /\ lastRun = NoRun
    /\ p1 = NoP1
    /\ stage = "session"
    /\ sortSelect = SortSelectDefault
    /\ searchInput = <<>>
    /\ returned = NoReturn
    /\ currentPage = 1
    /\ debounce = FALSE
    /\ lastRequest = NoRequest
    /\ batchMode = FALSE
    /\ selectedPaths = <<>>
    /\ loops = [b \in BatchIds |-> NoLoop]
    /\ downloads = {}
    /\ toasts = {}
    /\ failed = {}
    /\ direct = 0
    /\ checked = {}
    /\ listeners = NoContainer

\* displayCharactersInListViewPopup: the list layout is shown (its container
\* holds the spinner), the tag handlers are set up, and
\* initializeSearchAndNavigation awaits the first search.
OpenPopup ==
    /\ UNCHANGED <<pageVars, navVars, batchVars>>
    /\ popup = "closed"
    /\ become(executeCharacterSearch(
                 [current EXCEPT !.view = ViewSpinner(0), !.popup = "loading",
                                 !.listeners = NewContainer,
                                 !.lastRequest = [by |-> "open", page |-> 1,
                                                  afterChange |-> FALSE]],
                 FirstSearch, TRUE))
    /\ buttons' = {}
    /\ UNCHANGED <<server, clock, p1, stage>>

\* Time passes.
Tick ==
    /\ UNCHANGED <<pageVars, navVars, lastRequest, batchVars, listeners>>
    /\ clock < ClockStart + MaxTicks * ClockStep
    /\ clock' = clock + ClockStep
    /\ UNCHANGED <<server, settings, selectedTags, buttons, mlpcharacters, tagCounts,
                   cachedData, lastFetchTime, searches, view, pageNumber, popup,
                   lastRun, p1, stage>>

\* The response to one of the two requests of invocation id arrives, with a
\* success status or not. When it is the last one the invocation resumes:
\* it throws on a non-success status, and otherwise asks for both bodies.
ResponseArrives(id, e, ok) ==
    /\ UNCHANGED <<pageVars, navVars, batchVars>>
    /\ searches[id].pc = "awaitResponses"
    /\ includes(searches[id].requests, e)
    /\ e \notin DOMAIN searches[id].responses
    /\ LET responses == searches[id].responses @@ (e :> ok)
           st == [current EXCEPT !.searches[id].responses = responses]
       IN  become(IF ~promiseAll(DOMAIN responses) THEN st
                  ELSE IF ~responsesOk(responses) THEN failSearch(st, id)
                  ELSE [st EXCEPT !.searches[id].pc = "awaitBodies"])
    /\ UNCHANGED <<server, clock, buttons, p1, stage>>

\* One of the two bodies of invocation id is parsed. When it is the last
\* one the invocation resumes: it replaces the cache and runs the pipeline.
BodyParsed(id, e) ==
    /\ UNCHANGED <<pageVars, navVars, batchVars>>
    /\ searches[id].pc = "awaitBodies"
    /\ e \in DOMAIN searches[id].responses
    /\ e \notin searches[id].bodies
    /\ LET bodies == searches[id].bodies \cup {e}
           s == searches[id]
           st == [current EXCEPT !.searches[id].bodies = bodies]
           maresData == maresBody(id, s.now)
           filters == filtersBody(id, s.now)
           finished == [st EXCEPT !.searches[id] = [UnusedSearch EXCEPT !.pc = "done"]]
       IN  become(IF ~promiseAll(bodies) THEN st
                  ELSE completeSearch(
                           updateCache(finished, maresData, filters, s.now),
                           [started |-> s.started, requests |-> s.requests,
                            received |-> bodies, maresData |-> maresData,
                            filters |-> filters],
                           s.opts, s.awaited, id, s.now))
    /\ UNCHANGED <<server, clock, buttons, p1, stage>>

\* A click on a tag or category button (setupTagHandlers): the button's
\* class is toggled, selectedTags becomes the selected buttons in document
\* order, and resetPageAndSearch runs.
TagClick(b) ==
    /\ UNCHANGED <<pageVars, navVars, batchVars>>
    /\ popup # "closed"
    /\ LET toggled == IF b \in buttons THEN buttons \ {b} ELSE buttons \cup {b}
           selection == SelectSeq(FilterButtons, LAMBDA x : x \in toggled)
       IN  /\ buttons' = toggled
           /\ become(resetPageAndSearch([current EXCEPT !.selectedTags = selection]))
    /\ UNCHANGED <<server, clock, p1, stage>>

\* The change handler of #showNSFW.
ShowNSFWChange ==
    /\ UNCHANGED <<pageVars, navVars, batchVars>>
    /\ popup = "ready"
    /\ become(resetPageAndSearch(
                 [current EXCEPT !.settings.showNSFW = ~settings.showNSFW]))
    /\ UNCHANGED <<server, clock, buttons, p1, stage>>

\* The change handler of #cacheEnabled.
CacheEnabledChange ==
    /\ UNCHANGED <<pageVars, navVars, lastRequest, batchVars, listeners>>
    /\ popup = "ready"
    /\ settings' = [settings EXCEPT !.cacheEnabled = ~settings.cacheEnabled]
    /\ UNCHANGED <<server, clock, selectedTags, buttons, mlpcharacters, tagCounts,
                   cachedData, lastFetchTime, searches, view, pageNumber, popup,
                   lastRun, p1, stage>>

\* Faulty variant of clearCache: the cached pair is kept.
clearCacheTimestampOnly(st) == [st EXCEPT !.lastFetchTime = 0]

\* cachedData = null; lastFetchTime = 0 (index.js:1028-1029).
clearCache(st) == [st EXCEPT !.cachedData = None, !.lastFetchTime = 0]

\* The click handler of #clearCacheBtn.
ClearCache ==
    /\ UNCHANGED <<pageVars, navVars, batchVars>>
    /\ popup = "ready"
    /\ become(resetPageAndSearch(clearCache(current)))
    /\ UNCHANGED <<server, clock, buttons, p1, stage>>

Next ==
    \/ OpenPopup
    \/ Tick
    \/ \E id \in SearchIds, e \in Endpoints, ok \in BOOLEAN : ResponseArrives(id, e, ok)
    \/ \E id \in SearchIds, e \in Endpoints : BodyParsed(id, e)
    \/ \E b \in SessionButtons : TagClick(b)
    \/ ShowNSFWChange
    \/ CacheEnabledChange
    \/ ClearCache

Spec == Init /\ [][Next]_vars

\* ------------------------------------------------------------------------
\* Filter specification: the pipeline applied to every drawn input
\* ------------------------------------------------------------------------
InitFilter ==
    /\ server \in {[entries |-> c, filters |-> f] : c \in Catalogs, f \in FilterIndexes}
    /\ clock = ClockStart
    /\ settings \in {[defaultSettings EXCEPT !.showNSFW = b] : b \in BOOLEAN}
    /\ selectedTags \in Selections
    /\ buttons = {selectedTags[i] : i \in 1..Len(selectedTags)}
    /\ mlpcharacters = <<>>
    /\ tagCounts = EmptyMap
    /\ cachedData = None
    /\ lastFetchTime = 0
    /\ searches = [i \in SearchIds |-> UnusedSearch]
    /\ view = ViewSpinner(0)
    /\ pageNumber = 1
    /\ popup = "loading"
    /\ lastRun = NoRun
    /\ p1 = NoP1
    /\ stage = "input"
    /\ sortSelect = SortSelectDefault
    /\ searchInput = <<>>
    /\ returned = NoReturn
    /\ currentPage = 1
    /\ debounce = FALSE
    /\ lastRequest = NoRequest
    /\ batchMode = FALSE
    /\ selectedPaths = <<>>
    /\ loops = [b \in BatchIds |-> NoLoop]
    /\ downloads = {}
    /\ toasts = {}
    /\ failed = {}
    /\ direct = 0
    /\ checked = {}
    /\ listeners = NewContainer

\* fetchCharactersBySearch of index.js from the fetched pair on
\* (lines 514-611), with what executeCharacterSearch does with the page.
FilterIndexJs ==
    /\ UNCHANGED <<pageVars, navVars, batchVars>>
    /\ stage = "input"
    /\ LET maresData == maresBody(0, clock)
           filters == filtersBody(0, clock)
           started == snapshot(settings.cacheEnabled, cachedData, clock, lastFetchTime)
       IN  become(completeSearch(
                      updateCache(current, maresData, filters, clock),
                      [started |-> started, requests |-> requestsIssued,
                       received |-> Endpoints, maresData |-> maresData,
                       filters |-> filters],
                      FirstSearch, TRUE, 0, clock))
    /\ stage' = "index.js"
    /\ UNCHANGED <<server, clock, buttons, p1>>

\* fetchCharactersBySearch of part_001 from the fetched pair on (lines 399-486).
FilterPart001 ==
    /\ UNCHANGED <<pageVars, navVars, lastRequest, batchVars, listeners>>
    /\ stage = "input"
    /\ LET maresData == [entries |-> server.entries]
           r == runPipelineP1(maresData, server.filters, selectedTags,
                              FirstSearch, SortSelectDefault, settings.findCount, clock)
       IN  p1' = [ran |-> TRUE, maresData |-> maresData, filters |-> server.filters,
                  selectedTags |-> selectedTags, mlpcharacters |-> r.mlpcharacters,
                  tagCounts |-> r.tagCounts, page |-> r.page]
    /\ stage' = "part_001"
    /\ UNCHANGED <<server, clock, settings, selectedTags, buttons, mlpcharacters, tagCounts,
                   cachedData, lastFetchTime, searches, view, pageNumber, popup,
                   lastRun>>

NextFilter == FilterIndexJs \/ FilterPart001

SpecFilter == InitFilter /\ [][NextFilter]_vars

\* ------------------------------------------------------------------------
\* Page specification: search term, sorting and pagination on drawn inputs
\* ------------------------------------------------------------------------
\* Catalog values with names, authors and dates that tie and that differ in
\* case. CardC has no datecreate and CardD no date at all.
CardB ==
    [ValidValue EXCEPT !.name = Some(<<"B", "e", "a">>), !.author = Some(<<"a", "l">>),
                       !.dateupdate = Some(2), !.datecreate = Some(3)]
CardC ==
    [ValidValue EXCEPT !.name = Some(<<"A", "l">>), !.author = Some(<<"B", "e", "a">>),
                       !.dateupdate = Some(1), !.datecreate = None]
CardD ==
    [ValidValue EXCEPT !.name = Some(<<"c", "a", "d", "e">>),
                       !.dateupdate = None, !.datecreate = None]
PageValues == {ValidValue, CardB, CardC, CardD}

\* The keys of the page catalogs, in the order of the catalog.
PageKeyOrder == <<KeyC, KeyB, KeyAXs>>
PageCatalogs ==
    {LET present(k) == f[k] # None
         ks == SelectSeq(PageKeyOrder, present)
     IN  [i \in 1..Len(ks) |-> <<ks[i], f[ks[i]][1]>>] :
        f \in [{KeyC, KeyB, KeyAXs} -> {None} \cup {Some(v) : v \in PageValues}]}

\* What the user can have typed in the search box.
SearchTerms == {<<>>, <<"A", "L">>, <<"e">>, <<"x">>}

\* The values of the options of #sortSelect.
SortOptions == {"dateupdate", "datecreate", "name", "author"}

InitPage ==
    /\ server \in {[entries |-> c, filters |-> FiltersNone] : c \in PageCatalogs}
    /\ clock = ClockStart
    /\ settings \in {[defaultSettings EXCEPT !.findCount = n] : n \in 1..MaxPageSize}
    /\ selectedTags = <<>>
    /\ buttons = {}
    /\ mlpcharacters = <<>>
    /\ tagCounts = EmptyMap
    /\ cachedData = None
    /\ lastFetchTime = 0
    /\ searches = [i \in SearchIds |-> UnusedSearch]
    /\ view = ViewSpinner(0)
    /\ pageNumber \in 1..MaxPage
    /\ popup = "ready"
    /\ lastRun = NoRun
    /\ p1 = NoP1
    /\ stage = "input"
    /\ sortSelect \in {Some(k) : k \in SortOptions}
    /\ searchInput \in SearchTerms
    /\ returned = NoReturn
    /\ currentPage = 1
    /\ debounce = FALSE
    /\ lastRequest = NoRequest
    /\ batchMode = FALSE
    /\ selectedPaths = <<>>
    /\ loops = [b \in BatchIds |-> NoLoop]
    /\ downloads = {}
    /\ toasts = {}
    /\ failed = {}
    /\ direct = 0
    /\ checked = {}
    /\ listeners = NewContainer

\* fetchCharactersBySearch({ searchTerm: searchInput.value, page }) of
\* index.js from the fetched pair on, for the page #pageNumber shows.
FetchPage ==
    /\ stage = "input"
    /\ LET maresData == maresBody(0, clock)
           filters == filtersBody(0, clock)
           opts == [searchTerm |-> searchInput, page |-> pageNumber]
           r == runPipeline(maresData, filters, selectedTags, settings.showNSFW, opts,
                            sortSelect, settings.findCount, clock)
       IN  /\ cachedData' = <<maresData, filters>>
           /\ lastFetchTime' = clock
           /\ mlpcharacters' = r.mlpcharacters
           /\ tagCounts' = r.tagCounts
           /\ returned' = pipelineLocals(maresData, filters, selectedTags, settings.showNSFW,
                                         opts, sortSelect, settings.findCount, clock)
    /\ stage' = "index.js"
    /\ UNCHANGED <<server, clock, settings, selectedTags, buttons, searches, view,
                   pageNumber, popup, lastRun, p1, sortSelect, searchInput, navVars,
                   lastRequest, batchVars, listeners>>

NextFetch == FetchPage

SpecPage == InitPage /\ [][NextFetch]_vars

\* ------------------------------------------------------------------------
\* Navigation specification: the pager, the search box and the settings
\* ------------------------------------------------------------------------
\* Five entries: c and d and e uncategorized, b under nsfw, a/x under eqg.
KeyD == <<"d">>
KeyE == <<"e">>
NavCatalog ==
    <<<<KeyC, ValidValue>>, <<KeyB, ValidValue>>, <<KeyAXs, ValidValue>>,
      <<KeyD, CardB>>, <<KeyE, CardC>>>>

\* What the user types in the search box: nothing, or a term two of the
\* records have.
NavTerms == {<<>>, <<"b", "e">>}

\* The options of #findCountSelect reduced to two sizes.
NavFindCounts == {SessionFindCount, SessionFindCount + 1}

InitNav ==
    /\ server = [entries |-> NavCatalog, filters |-> FiltersSession]
    /\ clock = ClockStart
    /\ settings = [defaultSettings EXCEPT !.findCount = SessionFindCount]
    /\ selectedTags = <<>>
    /\ buttons = {}
    /\ mlpcharacters = <<>>
    /\ tagCounts = EmptyMap
    /\ cachedData = None
    /\ lastFetchTime = 0
    /\ searches = [i \in SearchIds |-> UnusedSearch]
    /\ view = ViewClosed
    /\ pageNumber = 1
    /\ popup = "closed"
    /\ lastRun = NoRun
    /\ p1 = NoP1
    /\ stage = "navigation"
    /\ sortSelect = SortSelectDefault
    /\ searchInput = <<>>
    /\ returned = NoReturn
    /\ currentPage = 1
    /\ debounce = FALSE
    /\ lastRequest = NoRequest
    /\ batchMode = FALSE
    /\ selectedPaths = <<>>
    /\ loops = [b \in BatchIds |-> NoLoop]
    /\ downloads = {}
    /\ toasts = {}
    /\ failed = {}
    /\ direct = 0
    /\ checked = {}
    /\ listeners = NoContainer

\* The click handler of #nextPageButton.
NextPageClick ==
    /\ popup = "ready"
    /\ currentPage < MaxNavPage
    /\ currentPage' = currentPage + 1
    /\ become(executeCharacterSearch(
                 [current EXCEPT !.pageNumber = currentPage + 1,
                                 !.lastRequest = [by |-> "next", page |-> currentPage + 1,
                                                  afterChange |-> lastRequest.by = "change"]],
                 [searchTerm |-> searchInput, page |-> currentPage + 1], FALSE))
    /\ UNCHANGED <<server, clock, buttons, p1, stage, pageVars, debounce, batchVars>>

\* The click handler of #prevPageButton: nothing happens on page 1.
PrevPageClick ==
    /\ popup = "ready"
    /\ currentPage > 1
    /\ currentPage' = currentPage - 1
    /\ become(executeCharacterSearch(
                 [current EXCEPT !.pageNumber = currentPage - 1,
                                 !.lastRequest = [by |-> "prev", page |-> currentPage - 1,
                                                  afterChange |-> lastRequest.by = "change"]],
                 [searchTerm |-> searchInput, page |-> currentPage - 1], FALSE))
    /\ UNCHANGED <<server, clock, buttons, p1, stage, pageVars, debounce, batchVars>>

\* The user edits the search box; once the handlers are attached the input
\* event starts the timer of the debounced handleSearch.
TypeSearch(term) ==
    /\ popup # "closed"
    /\ term # searchInput
    /\ searchInput' = term
    /\ debounce' = (popup = "ready")
    /\ UNCHANGED <<server, clock, settings, selectedTags, buttons, mlpcharacters, tagCounts,
                   cachedData, lastFetchTime, searches, view, pageNumber, popup, lastRun,
                   p1, stage, sortSelect, returned, currentPage, lastRequest, batchVars,
                   listeners>>

\* The timer runs out: handleSearch sets the currentPage of
\* initializeSearchAndNavigation (not the one of the pager) to 1, shows 1 and
\* searches page 1 of the term in the box.
HandleSearch ==
    /\ debounce
    /\ debounce' = FALSE
    /\ become(executeCharacterSearch(
                 [current EXCEPT !.pageNumber = 1,
                                 !.lastRequest = [by |-> "change", page |-> 1,
                                                  afterChange |-> FALSE]],
                 [searchTerm |-> searchInput, page |-> 1], FALSE))
    /\ UNCHANGED <<server, clock, buttons, p1, stage, pageVars, currentPage, batchVars>>

\* The change handler of #findCountSelect.
FindCountChange(n) ==
    /\ popup = "ready"
    /\ n # settings.findCount
    /\ become(resetPageAndSearch([current EXCEPT !.settings.findCount = n]))
    /\ UNCHANGED <<server, clock, buttons, p1, stage, pageVars, navVars, batchVars>>

NextNav ==
    \/ OpenPopup
    \/ \E id \in SearchIds, e \in Endpoints, ok \in BOOLEAN : ResponseArrives(id, e, ok)
    \/ \E id \in SearchIds, e \in Endpoints : BodyParsed(id, e)
    \/ NextPageClick
    \/ PrevPageClick
    \/ \E term \in NavTerms : TypeSearch(term)
    \/ HandleSearch
    \/ \E b \in SessionButtons : TagClick(b)
    \/ \E n \in NavFindCounts : FindCountChange(n)

SpecNav == InitNav /\ [][NextNav]_vars

\* ------------------------------------------------------------------------
\* Back-off specification: one request for a drawn page of a drawn catalog
\* ------------------------------------------------------------------------
\* The catalogs: the first entries of NavCatalog, none and all included.
ChainCatalogs == {SubSeq(NavCatalog, 1, k) : k \in 0..Len(NavCatalog)}

\* The terms in the search box: none, and one that matches no record.
ChainTerms == {<<>>, <<"x">>}

InitChain ==
    /\ server \in {[entries |-> c, filters |-> FiltersSession] : c \in ChainCatalogs}
    /\ clock = ClockStart
    /\ settings \in {[defaultSettings EXCEPT !.findCount = n, !.cacheEnabled = b] :
                         n \in 1..MaxPageSize, b \in BOOLEAN}
    /\ selectedTags = <<>>
    /\ buttons = {}
    /\ mlpcharacters = <<>>
    /\ tagCounts = EmptyMap
    /\ cachedData = None
    /\ lastFetchTime = 0
    /\ searches = [i \in SearchIds |-> UnusedSearch]
    /\ view = ViewSpinner(0)
    /\ pageNumber \in 1..MaxPage
    /\ popup = "ready"
    /\ lastRun = NoRun
    /\ p1 = NoP1
    /\ stage = "input"
    /\ sortSelect = SortSelectDefault
    /\ searchInput \in ChainTerms
    /\ returned = NoReturn
    /\ currentPage = pageNumber
    /\ debounce = FALSE
    /\ lastRequest = NoRequest
    /\ batchMode = FALSE
    /\ selectedPaths = <<>>
    /\ loops = [b \in BatchIds |-> NoLoop]
    /\ downloads = {}
    /\ toasts = {}
    /\ failed = {}
    /\ direct = 0
    /\ checked = {}
    /\ listeners = NewContainer

\* executeCharacterSearch({ searchTerm: searchInput.value, page: currentPage })
\* as the Previous/Next handlers call it (index.js:1047-1050, 1060-1063),
\* for the page the pager has stepped to.
RequestPage ==
    /\ stage = "input"
    /\ become(executeCharacterSearch(
                 [current EXCEPT !.lastRequest = [by |-> "next", page |-> currentPage,
                                                  afterChange |-> FALSE]],
                 [searchTerm |-> searchInput, page |-> currentPage], FALSE))
    /\ stage' = "index.js"
    /\ UNCHANGED <<server, clock, buttons, p1, pageVars, navVars, batchVars>>

NextChain ==
    \/ RequestPage
    \/ \E id \in SearchIds, e \in Endpoints, ok \in BOOLEAN : ResponseArrives(id, e, ok)
    \/ \E id \in SearchIds, e \in Endpoints : BodyParsed(id, e)

SpecChain == InitChain /\ [][NextChain]_vars

\* ------------------------------------------------------------------------
\* Reopening specification: the list popup is left and entered again
\* ------------------------------------------------------------------------
InitReopen ==
    /\ server = [entries |-> SessionCatalog, filters |-> FiltersSession]
    /\ clock = ClockStart
    /\ settings \in {[defaultSettings EXCEPT !.findCount = SessionFindCount,
                                             !.cacheEnabled = b] : b \in BOOLEAN}
    /\ selectedTags = <<>>
    /\ buttons = {}
    /\ mlpcharacters = <<>>
    /\ tagCounts = EmptyMap
    /\ cachedData = None
    /\ lastFetchTime = 0
    /\ searches = [i \in SearchIds |-> UnusedSearch]
    /\ view = ViewClosed
    /\ pageNumber = 1
    /\ popup = "closed"
    /\ lastRun = NoRun
    /\ p1 = NoP1
    /\ stage = "reopen"
    /\ sortSelect = SortSelectDefault
    /\ searchInput = <<>>
    /\ returned = NoReturn
    /\ currentPage = 1
    /\ debounce = FALSE
    /\ lastRequest = NoRequest
    /\ batchMode = FALSE
    /\ selectedPaths = <<>>
    /\ loops = [b \in BatchIds |-> NoLoop]
    /\ downloads = {}
    /\ toasts = {}
    /\ failed = {}
    /\ direct = 0
    /\ checked = {}
    /\ listeners = NoContainer

\* The list popup is replaced: the host closes it, or callPopup(modal, 'html')
\* shows a preview over it (index.js:376, 962). Its elements are gone; the
\* variables of the module and the searches under way are not touched.
LeavePopup ==
    /\ popup = "ready"
    /\ popup' = "closed"
    /\ view' = ViewClosed
    /\ buttons' = {}
    /\ listeners' = NoContainer
    /\ UNCHANGED <<server, clock, settings, selectedTags, mlpcharacters, tagCounts,
                   cachedData, lastFetchTime, searches, pageNumber, lastRun, p1, stage,
                   lastRequest, pageVars, navVars, batchVars>>

NextReopen ==
    \/ OpenPopup
    \/ \E id \in SearchIds, e \in Endpoints, ok \in BOOLEAN : ResponseArrives(id, e, ok)
    \/ \E id \in SearchIds, e \in Endpoints : BodyParsed(id, e)
    \/ \E b \in SessionButtons : TagClick(b)
    \/ LeavePopup

SpecReopen == InitReopen /\ [][NextReopen]_vars

\* The paths of a sequence of records.
pathsOf(characters) == {characters[i].path : i \in 1..Len(characters)}

\* ------------------------------------------------------------------------
\* Batch selection and card downloads (index.js:134-149, 338-360, 972-983)
\* ------------------------------------------------------------------------

\* What the handlers of this part leave alone, the list container apart.
searchVars == <<server, clock, settings, selectedTags, buttons, mlpcharacters, tagCounts,
                cachedData, lastFetchTime, searches, pageNumber, popup, lastRun, p1,
                stage, lastRequest>>

\* The outcomes of the two awaits of downloadCharacter: fetch rejects
\* ("network"), the response is not ok ("status"), response.blob() rejects
\* ("blob"), or both resolve ("ok").
ResponseOutcomes == {"ok", "network", "status"}
BlobOutcomes == {"ok", "blob"}

\* A click on a download button is download number n of "batch" 0.
DirectClick == 0

\* The state the downloads work on.
batch == [loops |-> loops, downloads |-> downloads, toasts |-> toasts,
          failed |-> failed]

becomeBatch(bs) ==
    /\ loops' = bs.loops
    /\ downloads' = bs.downloads
    /\ toasts' = bs.toasts
    /\ failed' = bs.failed

\* Faulty variant of catchesError: only a response that is not ok is caught.
catchesErrorStatusOnly(outcome) == outcome = "status"

\* The try/catch of downloadCharacter (index.js:135, 145-148) encloses both
\* awaits and the throw of line 138.
catchesError(outcome) == TRUE

\* Faulty variant of suspendsOnDownload: the loop does not wait for the call.
suspendsOnDownloadNever(path) == FALSE

\* await downloadCharacter(path) (index.js:981): the loop is suspended until
\* the promise of the call settles.
suspendsOnDownload(path) == TRUE

\* downloadCharacter up to its first await: fetch(imageUrl) is issued
\* (index.js:136-137).
downloadCharacter(bs, by, item, path) ==
    [bs EXCEPT !.downloads = @ \cup {[by |-> by, item |-> item, path |-> path,
                                      pc |-> "awaitResponse"]}]

\* for (const path of selectedPaths) { await downloadCharacter(path); }
\* (index.js:980-982) from the position the iterator stands at.
RECURSIVE runLoop(_, _)
runLoop(bs, b) ==
    LET l == bs.loops[b]
    IN  IF l.next > Len(l.arr)
        THEN [bs EXCEPT !.loops[b].pc = "done", !.loops[b].shared = FALSE]
        ELSE LET called == downloadCharacter([bs EXCEPT !.loops[b].next = l.next + 1,
                                                        !.loops[b].pc = "running"],
                                             b, l.next, l.arr[l.next])
             IN  IF suspendsOnDownload(l.arr[l.next]) THEN called
                 ELSE runLoop(called, b)

\* The promise of a call of downloadCharacter settles: the loop that awaits
\* it goes on; a rejected promise ends the async handler.
resume(bs, d, rejected) ==
    IF d.by = DirectClick \/ bs.loops[d.by].pc # "running" THEN bs
    ELSE IF rejected THEN [bs EXCEPT !.loops[d.by].pc = "aborted"]
    ELSE runLoop(bs, d.by)

\* The end of downloadCharacter (index.js:141-148).
settleDownload(bs, d, outcome) ==
    LET gone == [bs EXCEPT !.downloads = @ \ {d}]
        toast(kind) == [by |-> d.by, item |-> d.item, path |-> d.path, kind |-> kind]
    IN  IF outcome = "ok"
        THEN resume([gone EXCEPT !.toasts = @ \cup {toast("success")}], d, FALSE)
        ELSE LET thrown == [gone EXCEPT !.failed = @ \cup {<<d.by, d.item>>}]
             IN  IF catchesError(outcome)
                 THEN resume([thrown EXCEPT !.toasts = @ \cup {toast("error")}], d, FALSE)
                 ELSE resume(thrown, d, TRUE)

\* The array is no longer the one selectedPaths refers to.
detached(ls) == [b \in BatchIds |-> [ls[b] EXCEPT !.shared = FALSE]]

\* selectedPaths.push(path) is seen by the loops that iterate the array; a
\* loop whose iterator has finished keeps the array it went through.
pushed(ls, path) ==
    [b \in BatchIds |-> IF ls[b].shared THEN [ls[b] EXCEPT !.arr = Append(@, path)]
                        ELSE ls[b]]

\* updateCharacterListInView(characters) (index.js:273-332).
updateCharacterListInView(characters) ==
    LET characterElements ==
            SelectSeq(characters, LAMBDA char : char.name # <<>> /\ char.author # <<>>)
    IN  IF Len(characterElements) = 0
        THEN [kind |-> "no-valid-characters", by |-> 0, items |-> <<>>]
        ELSE ViewList(0, characterElements)

InitBatch ==
    /\ server = [entries |-> SessionCatalog, filters |-> FiltersSession]
    /\ clock = ClockStart
    /\ settings = [defaultSettings EXCEPT !.findCount = SessionFindCount]
    /\ selectedTags = <<>>
    /\ buttons = {}
    /\ mlpcharacters = <<>>
    /\ tagCounts = EmptyMap
    /\ cachedData = None
    /\ lastFetchTime = 0
    /\ searches = [i \in SearchIds |-> UnusedSearch]
    /\ view = ViewClosed
    /\ pageNumber = 1
    /\ popup = "closed"
    /\ lastRun = NoRun
    /\ p1 = NoP1
    /\ stage = "batch"
    /\ sortSelect = SortSelectDefault
    /\ searchInput = <<>>
    /\ returned = NoReturn
    /\ currentPage = 1
    /\ debounce = FALSE
    /\ lastRequest = NoRequest
    /\ batchMode = FALSE
    /\ selectedPaths = <<>>
    /\ loops = [b \in BatchIds |-> NoLoop]
    /\ downloads = {}
    /\ toasts = {}
    /\ failed = {}
    /\ direct = 0
    /\ checked = {}
    /\ listeners = NoContainer

\* The checkboxes the template of updateCharacterListInView renders as
\* checked (index.js:298): none outside batch mode, where no box is rendered.
\* Every search that renders a list in these specifications does so with an
\* empty selection, which leaves no box checked; that is why only the batch
\* handlers change the variable.
renderedChecked(characters, mode, paths) ==
    IF mode THEN {p \in pathsOf(characters) : includes(paths, p)} ELSE {}

\* Faulty variant of selectPath: a box that is unchecked leaves its path in.
selectPathNeverRemoves(paths, path, isChecked) ==
    IF isChecked /\ ~includes(paths, path) THEN Append(paths, path) ELSE paths

\* The branch of handleCharacterListClick for a checkbox (index.js:342-348).
selectPath(paths, path, isChecked) ==
    IF isChecked
    THEN IF ~includes(paths, path) THEN Append(paths, path) ELSE paths
    ELSE SelectSeq(paths, LAMBDA p : p # path)

\* The click handler of #batchToggle (index.js:972-977).
BatchToggle ==
    /\ popup = "ready"
    /\ batchMode' = ~batchMode
    /\ selectedPaths' = <<>>
    /\ loops' = detached(loops)
    /\ view' = updateCharacterListInView(mlpcharacters)
    /\ checked' = renderedChecked(mlpcharacters, ~batchMode, <<>>)
    /\ UNCHANGED <<searchVars, pageVars, navVars, listeners, downloads, toasts, failed,
                   direct>>

\* A click on the checkbox of a list item (index.js:339-349): the click
\* toggles the box before the handler reads checkbox.checked.
CheckboxClick(path) ==
    /\ batchMode
    /\ view.kind = "list"
    /\ path \in pathsOf(view.items)
    /\ LET isChecked == path \notin checked
       IN  /\ checked' = IF isChecked THEN checked \cup {path} ELSE checked \ {path}
           /\ selectedPaths' = selectPath(selectedPaths, path, isChecked)
           /\ loops' = IF ~isChecked THEN detached(loops)
                       ELSE IF ~includes(selectedPaths, path) THEN pushed(loops, path)
                       ELSE loops
    /\ UNCHANGED <<searchVars, pageVars, navVars, listeners, view, batchMode, downloads,
                   toasts, failed, direct>>

\* The click handler of #downloadSelected (index.js:979-983).
DownloadSelected ==
    /\ popup = "ready"
    /\ batchMode
    /\ \E b \in BatchIds :
          /\ loops[b].pc = "unused"
          /\ \A a \in BatchIds : a < b => loops[a].pc # "unused"
          /\ becomeBatch(runLoop(
                 [batch EXCEPT !.loops[b] = [NoLoop EXCEPT !.arr = selectedPaths,
                                             !.shared = TRUE]],
                 b))
    /\ UNCHANGED <<searchVars, pageVars, navVars, listeners, view, batchMode,
                   selectedPaths, direct, checked>>

\* The click event reaches each of the n listeners attached to the container;
\* each runs handleCharacterListClick, which calls downloadCharacter without
\* awaiting it (index.js:350-352). item: the downloads started by clicks so far.
RECURSIVE dispatchClick(_, _, _, _)
dispatchClick(bs, n, item, path) ==
    IF n = 0 THEN bs
    ELSE dispatchClick(downloadCharacter(bs, DirectClick, item + 1, path),
                       n - 1, item + 1, path)

\* A click on the download button of a list item (index.js:350-352): the
\* call is not awaited.
DownloadClick(path) ==
    /\ view.kind = "list"
    /\ path \in pathsOf(view.items)
    /\ direct + listeners.indexJs <= MaxDirect
    /\ direct' = direct + listeners.indexJs
    /\ becomeBatch(dispatchClick(batch, listeners.indexJs, direct, path))
    /\ UNCHANGED <<searchVars, pageVars, navVars, listeners, view, batchMode, selectedPaths,
                   checked>>

\* await fetch(imageUrl) of download d settles (index.js:137-138).
CardResponse(d, outcome) ==
    /\ d \in downloads
    /\ d.pc = "awaitResponse"
    /\ becomeBatch(IF outcome = "ok"
                   THEN [batch EXCEPT !.downloads =
                             (@ \ {d}) \cup {[d EXCEPT !.pc = "awaitBlob"]}]
                   ELSE settleDownload(batch, d, outcome))
    /\ UNCHANGED <<searchVars, pageVars, navVars, listeners, view, batchMode,
                   selectedPaths, direct, checked>>

\* await response.blob() of download d settles (index.js:140-144).
CardBlob(d, outcome) ==
    /\ d \in downloads
    /\ d.pc = "awaitBlob"
    /\ becomeBatch(settleDownload(batch, d, outcome))
    /\ UNCHANGED <<searchVars, pageVars, navVars, listeners, view, batchMode,
                   selectedPaths, direct, checked>>

NextBatch ==
    \/ OpenPopup
    \/ \E id \in SearchIds, e \in Endpoints, ok \in BOOLEAN : ResponseArrives(id, e, ok)
    \/ \E id \in SearchIds, e \in Endpoints : BodyParsed(id, e)
    \/ BatchToggle
    \/ \E path \in Keys : CheckboxClick(path)
    \/ DownloadSelected
    \/ \E path \in Keys : DownloadClick(path)
    \/ \E d \in downloads, outcome \in ResponseOutcomes : CardResponse(d, outcome)
    \/ \E d \in downloads, outcome \in BlobOutcomes : CardBlob(d, outcome)

SpecBatch == InitBatch /\ [][NextBatch]_vars

\* ------------------------------------------------------------------------
\* Vocabulary of the properties
\* ------------------------------------------------------------------------
\* Two paths that differ at most in the style of their separators.
SameUpToSeparators(a, b) ==
    /\ Len(a) = Len(b)
    /\ \A i \in 1..Len(a) : a[i] = b[i] \/ {a[i], b[i]} \subseteq {Slash, Backslash}

\* The path is listed, in either separator style, under the category.
ListedUnder(filters, category, path) ==
    /\ category \in DOMAIN filters.lists
    /\ \E i \in 1..Len(filters.lists[category]) :
          SameUpToSeparators(filters.lists[category][i], path)

\* The path is listed under one of the three categories.
Categorized(filters, path) ==
    \E category \in {nsfw, eqg, anthro} : ListedUnder(filters, category, path)

\* A catalog value that is not an object, lacks name, lacks author or
\* carries an error.
Malformed(value) ==
    \/ value.type # "object"
    \/ value.name = None
    \/ value.author = None
    \/ value.error # None

\* The catalog without its malformed entries.
WellFormedOnly(maresData) ==
    [entries |-> SelectSeq(maresData.entries, LAMBDA e : ~Malformed(e[2]))]

\* The selected ids that are categories, and those that are not, as sets.
SelectedCategorySet(selTags) ==
    {selTags[i] : i \in 1..Len(selTags)} \cap {nsfw, eqg, anthro}
SelectedTagSet(selTags) ==
    {selTags[i] : i \in 1..Len(selTags)} \ {nsfw, eqg, anthro}

C6_UncategorizedOnly ==
    /\ (lastRun.ran /\ SelectedCategorySet(lastRun.selectedTags) = {}) =>
           \A i \in 1..Len(mlpcharacters) :
               ~Categorized(lastRun.filters, mlpcharacters[i].path)
    /\ (p1.ran /\ SelectedCategorySet(p1.selectedTags) = {}) =>
           \A i \in 1..Len(p1.mlpcharacters) :
               ~Categorized(p1.filters, p1.mlpcharacters[i].path)

\* The half of C6 about part_001, which that iteration satisfies.
C6_Part001Half ==
    (p1.ran /\ SelectedCategorySet(p1.selectedTags) = {}) =>
        \A i \in 1..Len(p1.mlpcharacters) :
            ~Categorized(p1.filters, p1.mlpcharacters[i].path)

\* ------------------------------------------------------------------------
\* C7
\* ------------------------------------------------------------------------
\* C7: with at least one category selected, every record of the result is
\* listed under a selected category (so uncategorized entries are dropped);
\* stated for index.js and for part_001.
C7_SelectedCategoryOnly ==
    /\ (lastRun.ran /\ SelectedCategorySet(lastRun.selectedTags) # {}) =>
           \A i \in 1..Len(mlpcharacters) :
               \E category \in SelectedCategorySet(lastRun.selectedTags) :
                   ListedUnder(lastRun.filters, category, mlpcharacters[i].path)
    /\ (p1.ran /\ SelectedCategorySet(p1.selectedTags) # {}) =>
           \A i \in 1..Len(p1.mlpcharacters) :
               \E category \in SelectedCategorySet(p1.selectedTags) :
                   ListedUnder(p1.filters, category, p1.mlpcharacters[i].path)

\* The half of C7 about index.js, which the latest iteration satisfies.
C7_IndexJsHalf ==
    (lastRun.ran /\ SelectedCategorySet(lastRun.selectedTags) # {}) =>
        \A i \in 1..Len(mlpcharacters) :
            \E category \in SelectedCategorySet(lastRun.selectedTags) :
                ListedUnder(lastRun.filters, category, mlpcharacters[i].path)

\* ------------------------------------------------------------------------
\* C8
\* ------------------------------------------------------------------------
\* C8: after a search made with the NSFW setting off, no stored record and
\* no record of the returned page is listed under nsfw, whatever is selected.
C8_NsfwHidden ==
    (lastRun.ran /\ ~lastRun.showNSFW) =>
        /\ \A i \in 1..Len(mlpcharacters) :
               ~ListedUnder(lastRun.filters, nsfw, mlpcharacters[i].path)
        /\ \A i \in 1..Len(lastRun.page) :
               ~ListedUnder(lastRun.filters, nsfw, lastRun.page[i].path)

\* C8 witness: a search with the setting off and the nsfw category selected,
\* over a catalog with a well-formed entry listed under nsfw in the other
\* separator style.
C8_Witness ==
    /\ lastRun.ran
    /\ ~lastRun.showNSFW
    /\ nsfw \in SelectedCategorySet(lastRun.selectedTags)
    /\ \E i \in 1..Len(lastRun.maresData.entries) :
          LET e == lastRun.maresData.entries[i]
          IN  /\ ~Malformed(e[2])
              /\ ListedUnder(lastRun.filters, nsfw, e[1])
              /\ ~includes(lastRun.filters.lists[nsfw], e[1])
              /\ e[1] \notin pathsOf(mlpcharacters)

\* ------------------------------------------------------------------------
\* C9
\* ------------------------------------------------------------------------
\* The tag list contains every selected regular tag, compared without case.
CarriesAllSelected(tags, selTags) ==
    {toLowerCase(t) : t \in SelectedTagSet(selTags)}
        \subseteq {toLowerCase(tags[i]) : i \in 1..Len(tags)}

\* The entry passes the steps that come before the regular-tag step.
PassesEarlierSteps(key, value, run) ==
    /\ ~Malformed(value)
    /\ run.showNSFW \/ ~ListedUnder(run.filters, nsfw, key)
    /\ \/ SelectedCategorySet(run.selectedTags) = {}
       \/ \E category \in SelectedCategorySet(run.selectedTags) :
              ListedUnder(run.filters, category, key)

\* C9: when regular tags are selected, an entry that passed the earlier
\* steps survives if and only if its resolved tag list contains every
\* selected regular tag (case-insensitive exact match).
C9_TagsConjunctive ==
    (lastRun.ran /\ SelectedTagSet(lastRun.selectedTags) # {}) =>
        \A i \in 1..Len(lastRun.maresData.entries) :
            LET e == lastRun.maresData.entries[i]
            IN  PassesEarlierSteps(e[1], e[2], lastRun) =>
                    (e[1] \in pathsOf(mlpcharacters)
                        <=> CarriesAllSelected(resolveTags(lastRun.filters, e[1]),
                                               lastRun.selectedTags))

\* C9 witness: with mare and canon selected an entry tagged {Mare, canon}
\* survives while an entry tagged {MARE, stallion} is dropped.
C9_Witness ==
    /\ lastRun.ran
    /\ lastRun.selectedTags = <<mare, canon>>
    /\ \E i \in 1..Len(mlpcharacters) : mlpcharacters[i].tags = <<MareCap, canon>>
    /\ \E i \in 1..Len(lastRun.maresData.entries) :
          LET e == lastRun.maresData.entries[i]
          IN  /\ PassesEarlierSteps(e[1], e[2], lastRun)
              /\ resolveTags(lastRun.filters, e[1]) = <<MareUpper, stallion>>
              /\ e[1] \notin pathsOf(mlpcharacters)

\* ------------------------------------------------------------------------
\* C10
\* ------------------------------------------------------------------------
\* C10: two well-formed catalog entries whose keys differ only in the style
\* of their separators get the same tags, and the search keeps both or
\* neither.
C10_SeparatorIndependent ==
    lastRun.ran =>
        \A i, j \in 1..Len(lastRun.maresData.entries) :
            LET a == lastRun.maresData.entries[i]
                b == lastRun.maresData.entries[j]
            IN  (SameUpToSeparators(a[1], b[1]) /\ ~Malformed(a[2]) /\ ~Malformed(b[2])) =>
                    /\ a[1] \in pathsOf(mlpcharacters) <=> b[1] \in pathsOf(mlpcharacters)
                    /\ \A m, n \in 1..Len(mlpcharacters) :
                          (mlpcharacters[m].path = a[1] /\ mlpcharacters[n].path = b[1]) =>
                              mlpcharacters[m].tags = mlpcharacters[n].tags

\* C10 witness: both spellings of a path survive a search with a regular
\* tag selected, with tags the index holds under the backslash spelling only.
C10_Witness ==
    /\ lastRun.ran
    /\ SelectedTagSet(lastRun.selectedTags) # {}
    /\ {KeyAXs, KeyAXb} \subseteq pathsOf(mlpcharacters)
    /\ KeyAXs \notin DOMAIN lastRun.filters.tags
    /\ \A i \in 1..Len(mlpcharacters) :
          mlpcharacters[i].path \in {KeyAXs, KeyAXb} => mlpcharacters[i].tags # <<>>

\* ------------------------------------------------------------------------
\* C1
\* ------------------------------------------------------------------------
\* The cache was usable when the invocation started: caching enabled, a
\* pair cached, and the last fetch less than CACHE_DURATION ago.
Usable(started) == started.cacheEnabled /\ started.hasPair /\ started.fresh

\* The invocations that are waiting for the network.
InFlight == {i \in SearchIds : searches[i].pc \in {"awaitResponses", "awaitBodies"}}

\* C1: a search that starts with caching enabled, a cached pair and
\* now - lastFetchTime < CACHE_DURATION issues no network request: no such
\* invocation is waiting for the network, and the pipeline run of such an
\* invocation has issued and received nothing and worked on a pair that an
\* earlier, completed fetch had put in the cache.
C1_CacheHitNoRequests ==
    /\ \A i \in InFlight : ~Usable(searches[i].started)
    /\ (lastRun.ran /\ Usable(lastRun.started)) =>
           /\ lastRun.id = 0
           /\ lastRun.requests = <<>>
           /\ lastRun.received = {}
           /\ lastRun.maresData.req = lastRun.filters.req
           /\ lastRun.maresData.req \in SearchIds
           /\ searches[lastRun.maresData.req].pc = "done"

\* C1 witness: the second of two searches of one TTL window has been served
\* from the cache, some time after the fetch, and shows its list.
C1_Witness ==
    /\ lastRun.ran
    /\ Usable(lastRun.started)
    /\ lastRun.requests = <<>>
    /\ cachedData # None
    /\ clock > lastFetchTime
    /\ view = ViewList(0, lastRun.page)
    /\ \A i \in SearchIds : searches[i].pc \in {"unused", "done"} /\ (i > 1 => searches[i].pc = "unused")

\* ------------------------------------------------------------------------
\* C2
\* ------------------------------------------------------------------------
\* C2: a search that starts without a usable cache issues exactly two
\* requests, one for the catalog and one for the filter index, and filters
\* only when both responses and both bodies are in.
C2_CacheMissTwoRequests ==
    /\ \A i \in InFlight :
          /\ Len(searches[i].requests) = 2
          /\ {searches[i].requests[1], searches[i].requests[2]} = Endpoints
          /\ searches[i].pc = "awaitBodies" => DOMAIN searches[i].responses = Endpoints
    /\ (lastRun.ran /\ ~Usable(lastRun.started)) =>
           /\ lastRun.id \in SearchIds
           /\ Len(lastRun.requests) = 2
           /\ {lastRun.requests[1], lastRun.requests[2]} = Endpoints
           /\ lastRun.received = Endpoints
           /\ lastRun.maresData.req = lastRun.id
           /\ lastRun.filters.req = lastRun.id

\* C2 witness: a search that found caching enabled and a pair that was no
\* longer fresh has fetched both resources and run the pipeline.
C2_Witness ==
    /\ lastRun.ran
    /\ lastRun.started = [cacheEnabled |-> TRUE, hasPair |-> TRUE, fresh |-> FALSE]
    /\ lastRun.id = 2
    /\ lastRun.received = Endpoints
    /\ view = ViewList(2, lastRun.page)

\* ------------------------------------------------------------------------
\* C3
\* ------------------------------------------------------------------------
\* One step of C3, for invocation i.
C3_Step(i) ==
    /\ searches'[i].pc = "awaitResponses" => DOMAIN searches'[i].responses # Endpoints
    /\ searches'[i].pc = "awaitBodies" =>
           /\ DOMAIN searches'[i].responses = Endpoints
           /\ \A e \in Endpoints : searches'[i].responses[e]
    /\ (searches[i].pc = "awaitResponses" /\ searches'[i].pc # "awaitResponses") =>
           \/ searches'[i].pc = "awaitBodies"
           \/ /\ searches'[i].pc = "failed"
              /\ view' = ViewError(i)
              /\ UNCHANGED <<mlpcharacters, tagCounts, cachedData, lastFetchTime, lastRun>>
    /\ searches[i].pc = "failed" => searches'[i].pc = "failed"
    /\ (view'.kind = "list" /\ view'.by # 0) => searches'[view'.by].pc = "done"

\* C3: an invocation goes on to the bodies only when both responses have a
\* success status; otherwise it fails when the second response is in, and
\* in that step the container shows the generic error and no record, count
\* or cache entry is written; a failed invocation never renders a list.
C3_FetchErrorAborts == [][\A i \in SearchIds : C3_Step(i)]_vars

\* C3 witness: the filter-index request of a search got a non-success
\* status after an earlier search had shown its list; the container shows
\* the error.
C3_Witness ==
    /\ searches[1].pc = "done"
    /\ searches[2].pc = "failed"
    /\ view = ViewError(2)
    /\ mlpcharacters # <<>>
    /\ lastRun.id = 1

\* ------------------------------------------------------------------------
\* C4
\* ------------------------------------------------------------------------
\* C4: the cached catalog and the cached filter index are the bodies of the
\* same invocation, and lastFetchTime is the instant that invocation read.
C4_CachePairAtomic ==
    cachedData # None =>
        /\ cachedData[1].req = cachedData[2].req
        /\ cachedData[1].at = cachedData[2].at
        /\ lastFetchTime = cachedData[1].at

\* C4 witness: of two overlapping searches the one started first finished
\* last and its pair replaced that of the other.
C4_Witness ==
    /\ searches[1].pc = "done"
    /\ searches[2].pc = "done"
    /\ cachedData # None
    /\ cachedData[1].req = 1
    /\ lastRun.id = 1
    /\ selectedTags # <<>>

\* ------------------------------------------------------------------------
\* C11
\* ------------------------------------------------------------------------
\* The term occurs in s when case is ignored.
OccursIgnoringCase(term, s) ==
    \E i \in 0..(Len(s) - Len(term)) :
        \A j \in 1..Len(term) : LowerChar(s[i + j]) = LowerChar(term[j])

\* The smaller of two numbers, and the length of page p of a sequence of
\* length len cut into pages of n.
Min(a, b) == IF a < b THEN a ELSE b
PageLength(len, p, n) == IF len - (p - 1) * n < 0 THEN 0 ELSE Min(n, len - (p - 1) * n)

\* C11: with a search term, every returned record has the term, case
\* ignored, in its name or in its author; with no term the step drops
\* nothing (the array that is sorted and cut has every survivor of the
\* filter, and the page has the length of that page of the survivors).
C11_SearchTermSubstring ==
    returned.called =>
        /\ returned.searchTerm # <<>> =>
              \A i \in 1..Len(returned.characters) :
                  \/ OccursIgnoringCase(returned.searchTerm, returned.characters[i].name)
                  \/ OccursIgnoringCase(returned.searchTerm, returned.characters[i].author)
        /\ returned.searchTerm = <<>> =>
              /\ pathsOf(returned.sorted) = pathsOf(returned.survivors)
              /\ Len(returned.sorted) = Len(returned.survivors)
              /\ Len(returned.characters) =
                     PageLength(Len(returned.survivors), returned.page, settings.findCount)

\* C11 witness: the term AL kept a record for its name Al and a record for
\* its author al, and dropped a third record.
C11_Witness ==
    /\ returned.called
    /\ returned.searchTerm = <<"A", "L">>
    /\ Len(returned.survivors) = 3
    /\ Len(returned.characters) = 2
    /\ \E i \in 1..2 : returned.characters[i].name = <<"A", "l">>
    /\ \E i \in 1..2 : returned.characters[i].author = <<"a", "l">>

\* ------------------------------------------------------------------------
\* C13
\* ------------------------------------------------------------------------
\* Record a may stand before record b under the sort key.
InOrder(key, a, b) ==
    CASE key = "name" -> localeCompare(a.name, b.name) <= 0
      [] key = "author" -> localeCompare(a.author, b.author) <= 0
      [] key = "datecreate" -> a.datecreate[1] >= b.datecreate[1]
      [] OTHER -> a.dateupdate[1] >= b.dateupdate[1]

\* C13: the sorted array holds the records of the array before the sort, and
\* every record stands before the records after it under the selected key:
\* names and authors ascending, dates descending, dateupdate for the first
\* option of #sortSelect.
C13_OrderedBySelectedKey ==
    returned.called =>
        /\ pathsOf(returned.sorted) = pathsOf(returned.filtered)
        /\ Len(returned.sorted) = Len(returned.filtered)
        /\ \A i, j \in 1..Len(returned.sorted) :
               i < j => InOrder(sortSelect[1], returned.sorted[i], returned.sorted[j])

\* C13 witness: three records, the newest last in the catalog, sorted by
\* the default key: the sort moved the newest to the front.
C13_Witness ==
    /\ returned.called
    /\ sortSelect = SortSelectDefault
    /\ Len(returned.sorted) = 3
    /\ returned.sorted # returned.filtered
    /\ returned.sorted[1] = returned.filtered[3]
    /\ returned.sorted[1].dateupdate[1] > returned.sorted[2].dateupdate[1]
    /\ returned.sorted[2].dateupdate[1] > returned.sorted[3].dateupdate[1]

\* ------------------------------------------------------------------------
\* C14
\* ------------------------------------------------------------------------
\* The two records are equal under the sort key.
EqualUnderKey(key, a, b) ==
    CASE key = "name" -> a.name = b.name
      [] key = "author" -> a.author = b.author
      [] key = "datecreate" -> a.datecreate = b.datecreate
      [] OTHER -> a.dateupdate = b.dateupdate

\* The position of the record with the path in the sequence.
PositionOf(characters, path) ==
    CHOOSE k \in 1..Len(characters) : characters[k].path = path

\* C14: two records that are equal under the selected key stand in the
\* sorted array in the order they had before the sort.
C14_SortStable ==
    returned.called =>
        \A i, j \in 1..Len(returned.filtered) :
            (i < j /\ EqualUnderKey(sortSelect[1], returned.filtered[i], returned.filtered[j])) =>
                PositionOf(returned.sorted, returned.filtered[i].path)
                    < PositionOf(returned.sorted, returned.filtered[j].path)

\* C14 witness: the first and the last of three records have the same
\* dateupdate, the one between them is newer and was moved to the front.
C14_Witness ==
    /\ returned.called
    /\ sortSelect = SortSelectDefault
    /\ Len(returned.filtered) = 3
    /\ returned.filtered[1].dateupdate = returned.filtered[3].dateupdate
    /\ returned.filtered[1].name # returned.filtered[3].name
    /\ returned.sorted = <<returned.filtered[2], returned.filtered[1], returned.filtered[3]>>

\* ------------------------------------------------------------------------
\* C15
\* ------------------------------------------------------------------------
\* The 65 results of the example, and its pages of findCountDefault.
ExampleResults == [i \in 1..65 |-> i]
ExamplePage(p) == paginateResults(ExampleResults, p, findCountDefault)

\* C15: the returned slice is the elements of the sorted array at the
\* 0-based positions (p-1)*n .. p*n - 1 that exist, in order; in the example
\* of 65 results the pages have 30, 30 and 5 elements, page 4 is empty and
\* pages 1 to 3 in a row are the 65 results.
C15_PageSlice ==
    /\ returned.called =>
          LET n == settings.findCount
              p == returned.page
          IN  /\ Len(returned.characters) = PageLength(Len(returned.sorted), p, n)
              /\ \A k \in 1..Len(returned.characters) :
                     returned.characters[k] = returned.sorted[(p - 1) * n + k]
    /\ <<Len(ExamplePage(1)), Len(ExamplePage(2)), Len(ExamplePage(3)), Len(ExamplePage(4))>>
           = <<30, 30, 5, 0>>
    /\ ExamplePage(1) \o ExamplePage(2) \o ExamplePage(3) = ExampleResults

\* C15 witness: page 2 of three records in pages of two is the third record
\* alone.
C15_Witness ==
    /\ returned.called
    /\ settings.findCount = 2
    /\ returned.page = 2
    /\ Len(returned.sorted) = 3
    /\ returned.characters = <<returned.sorted[3]>>

\* ------------------------------------------------------------------------
\* C12
\* ------------------------------------------------------------------------
\* tagCounts[k] || 0
CountOf(k) == IF k \in DOMAIN tagCounts THEN tagCounts[k] ELSE 0

\* The names tagCounts can have an entry for: the tags of the filter index
\* and the categories.
CountedNames(filters) ==
    UNION {{filters.tags[key][i] : i \in 1..Len(filters.tags[key])} : key \in DOMAIN filters.tags}
        \cup {CategoryIds[i] : i \in 1..Len(CategoryIds)}

\* The stored records that carry the tag, and those that belong to the
\* category.
Carriers(k) ==
    {i \in 1..Len(mlpcharacters) : \E j \in 1..Len(mlpcharacters[i].tags) : mlpcharacters[i].tags[j] = k}
Members(filters, k) ==
    {i \in 1..Len(mlpcharacters) :
        /\ \E c \in 1..Len(CategoryIds) : CategoryIds[c] = k
        /\ ListedUnder(filters, k, mlpcharacters[i].path)}

\* The places of the tag lists of the stored records where the tag stands.
Occurrences(k) ==
    {<<i, j>> \in (1..Len(mlpcharacters)) \X (1..MaxTagList) :
        j <= Len(mlpcharacters[i].tags) /\ mlpcharacters[i].tags[j] = k}

SortedOf(run, sortKey, n) ==
    pipelineLocals(run.maresData, run.filters, run.selectedTags, run.showNSFW, run.opts,
                   sortKey, n, clock).sorted
LastPageOf(len, n) == IF len = 0 THEN 1 ELSE (len + n - 1) \div n

\* One step of C16.
C16_Step ==
    /\ view'.kind = "list" => view'.items # <<>>
    /\ (lastRun'.ran /\ lastRun'.page = <<>>) => lastRun'.opts.page = 1
    /\ (currentPage' # currentPage /\ searches' = searches) =>
          LET n == settings'.findCount
              sorted == SortedOf(lastRun', sortSelect', n)
              shown == Min(currentPage', LastPageOf(Len(sorted), n))
          IN  /\ lastRun'.opts.page = shown
              /\ pageNumber' = shown
              /\ IF sorted = <<>> THEN view' = ViewNoCharacters(0)
                 ELSE view' = ViewList(0, SubSeq(sorted, (shown - 1) * n + 1,
                                                 Min(shown * n, Len(sorted))))

\* C16: no empty list is ever shown, and the search that ends a chain of
\* retries has a page that is not empty or is the search of page 1; a
\* Previous/Next click that is served from the cache shows the page asked
\* for or, when that page is past the end, the last page that is not empty,
\* and #pageNumber shows the number of the page shown.
C16_EmptyPageBacksOff == [][C16_Step]_vars

\* C16 witness: four results in pages of two; Next was clicked with the pager
\* at page 3, pages 4 and 3 were empty, and the popup shows page 2 with its
\* two records.
C16_Witness ==
    /\ lastRequest.by = "next"
    /\ lastRequest.page = 4
    /\ currentPage = 4
    /\ settings.findCount = 2
    /\ Len(mlpcharacters) = 4
    /\ lastRun.opts.page = 2
    /\ pageNumber = 2
    /\ view.kind = "list"
    /\ Len(view.items) = 2

\* ------------------------------------------------------------------------
\* C17
\* ------------------------------------------------------------------------
\* C17 as stated: a change of the settings, of the selection or of the
\* search term asks for page 1, and the Previous/Next click that follows
\* the change starts from page 1: Next asks for page 2 and Previous for
\* nothing.
C17_PageResetsOnChange ==
    /\ lastRequest.by = "change" => lastRequest.page = 1
    /\ (lastRequest.by = "next" /\ lastRequest.afterChange) => lastRequest.page = 2
    /\ ~(lastRequest.by = "prev" /\ lastRequest.afterChange)

\* The part of C17 that holds: a change asks for page 1.
C17_ChangeAsksForPageOne ==
    lastRequest.by = "change" => lastRequest.page = 1

\* ------------------------------------------------------------------------
\* C18: a failed card download is reported and does not abort the batch
\* ------------------------------------------------------------------------

\* The downloads of batch b that wait for the network.
InFlightOf(b) == {d \in downloads : d.by = b}

\* Download item of batch b has ended with a notification of the kind.
Notified(b, item, kind) ==
    \E t \in toasts : t.by = b /\ t.item = item /\ t.kind = kind

\* Download item of batch b has ended.
Settled(b, item) == Notified(b, item, "success") \/ Notified(b, item, "error")

\* C18: every download that failed, of a batch or of a click on a download
\* button, has an error notification; no batch is aborted; a batch that goes
\* on after a failure has its next download under way, and a batch that is
\* done has gone through every path of its array.
C18_FailureReportedBatchGoesOn ==
    /\ \A f \in failed : Notified(f[1], f[2], "error")
    /\ \A b \in BatchIds :
          /\ loops[b].pc # "aborted"
          /\ loops[b].pc = "running" => InFlightOf(b) # {}
          /\ loops[b].pc = "done" =>
                 \A i \in 1..Len(loops[b].arr) : Settled(b, i)

\* A batch of two paths is done: its first download failed, its second one
\* succeeded.
C18_Witness ==
    \E b \in BatchIds :
        /\ loops[b].pc = "done"
        /\ Len(loops[b].arr) = 2
        /\ <<b, 1>> \in failed
        /\ Notified(b, 1, "error")
        /\ Notified(b, 2, "success")

\* ------------------------------------------------------------------------
\* C19: the downloads of a batch run one after the other
\* ------------------------------------------------------------------------

\* C19: of every run of the Download-selected loop at most one download
\* waits for the network; it is the download of the path the iterator has
\* just passed, and the downloads of all paths before it have ended with
\* their notification; no path beyond the iterator has been downloaded.
C19_BatchSequential ==
    \A b \in BatchIds :
        /\ Cardinality(InFlightOf(b)) <= 1
        /\ \A d \in InFlightOf(b) :
              /\ d.item = loops[b].next - 1
              /\ d.path = loops[b].arr[d.item]
              /\ \A i \in 1..(d.item - 1) : Settled(b, i)
        /\ \A t \in toasts :
              t.by = b => /\ t.item < loops[b].next
                          /\ t.path = loops[b].arr[t.item]
                          /\ \A i \in 1..(t.item - 1) : Settled(b, i)

\* The second download of a batch waits for the network after the first
\* one has handed its file over.
C19_Witness ==
    \E b \in BatchIds :
        /\ loops[b].pc = "running"
        /\ Notified(b, 1, "success")
        /\ \E d \in InFlightOf(b) : d.item = 2 /\ d.path # loops[b].arr[1]

\* ------------------------------------------------------------------------
\* C20: no network operation is retried automatically
\* ------------------------------------------------------------------------

\* The step starts an invocation of the search that goes to the network.
SearchRequestIssued ==
    \E i \in SearchIds : /\ searches[i].pc = "unused"
                          /\ searches'[i].pc = "awaitResponses"

\* The card fetches the step issues.
CardRequestsIssued == {d \in downloads' : d.pc = "awaitResponse" /\ d \notin downloads}

\* The step issues a network request.
RequestIssued == SearchRequestIssued \/ CardRequestsIssued # {}

\* A catalog/filter fetch or a card download fails in the step.
SearchFailsNow ==
    \E i \in SearchIds : searches[i].pc # "failed" /\ searches'[i].pc = "failed"
FailsNow == SearchFailsNow \/ failed' # failed

\* C20 as stated: once a fetch or a download has failed, no request at all
\* is issued before the next user action; in particular the step in which
\* the failure is handled issues none.
C20_NoRequestAfterFailure == [][FailsNow => ~RequestIssued]_vars

\* The card fetch d is issued by a click on a download button.
IssuedByDownloadClick(d) == d.by = DirectClick /\ direct' # direct

\* The card fetch d is issued by the Download-selected loop d.by for the
\* next path of its array, at the click or after the download before it
\* has ended.
IssuedByLoop(d) ==
    /\ d.by \in BatchIds
    /\ d.item = loops[d.by].next
    /\ d.path = loops'[d.by].arr[d.item]
    /\ \/ loops[d.by].pc = "unused"
       \/ /\ loops[d.by].pc = "running"
          /\ \E e \in downloads \ downloads' : e.by = d.by /\ e.item = d.item - 1

C20_Step ==
    /\ \A i \in SearchIds : searches[i].pc = "failed" => searches'[i] = searches[i]
    /\ SearchFailsNow => ~SearchRequestIssued
    /\ SearchRequestIssued => popup = "closed" /\ popup' = "loading"
    /\ \A f \in failed :
          /\ f \in failed'
          /\ \A d \in downloads' : <<d.by, d.item>> # f
    /\ \A d \in CardRequestsIssued : IssuedByDownloadClick(d) \/ IssuedByLoop(d)

\* C20, amended: a failed operation is never issued again. An invocation of
\* the search that failed stays failed and the step that handles its
\* failure starts no search; a search goes to the network only when the
\* user opens the popup; a card download that failed is never fetched
\* again; and a card fetch is issued only by a click on a download button
\* or by a Download-selected loop for the next path of its array.
C20_NoAutomaticRetry == [][C20_Step]_vars

\* The first download of a batch has failed and the loop has gone on to
\* fetch its second path.
C20_Witness ==
    \E b \in BatchIds :
        /\ <<b, 1>> \in failed
        /\ \E d \in InFlightOf(b) : d.item = 2 /\ d.pc = "awaitResponse"

\* ------------------------------------------------------------------------
\* C21: overlapping searches are not cancelled and both write the state
\* ------------------------------------------------------------------------

\* Invocation i receives its last body in the step and completes.
CompletesNow(i) == searches[i].pc = "awaitBodies" /\ searches'[i].pc = "done"

C21_Step ==
    \A i \in SearchIds :
        /\ i \in InFlight =>
              /\ searches'[i].pc \in {"awaitResponses", "awaitBodies", "done", "failed"}
              /\ searches'[i].pc \in {"awaitResponses", "awaitBodies"} =>
                     /\ searches'[i].opts = searches[i].opts
                     /\ searches'[i].requests = searches[i].requests
        /\ CompletesNow(i) =>
              /\ cachedData' # None
              /\ cachedData'[1].req = i /\ cachedData'[2].req = i
              /\ lastRun'.id = i
              /\ lastRun'.maresData.req = i
              /\ pathsOf(lastRun'.page) \subseteq pathsOf(mlpcharacters')
              /\ view'.by = i
              /\ view'.kind \in {"list", "no-characters-found"}
              /\ view'.items = lastRun'.page

\* C21: an invocation that waits for the network keeps waiting, with its
\* options and requests, whatever other invocations start, until its own
\* responses end it; and whenever an invocation completes, whether or not a
\* later one was started or has completed meanwhile, it stores its own pair
\* in the cache, its own result in mlpcharacters and its own page in the list.
C21_OverlappingSearchesBothWrite == [][C21_Step]_vars

\* Two invocations overlapped, the later one completed first, and the list,
\* mlpcharacters and the cache hold what the earlier one fetched.
C21_Witness ==
    /\ \A i \in {1, 2} : searches[i].pc = "done"
    /\ view.kind = "list"
    /\ view.by = 1
    /\ lastRun.id = 1
    /\ lastRun.requests # <<>>
    /\ cachedData # None
    /\ cachedData[1].req = 1
    /\ selectedTags # <<>>

\* ------------------------------------------------------------------------
\* C22: the tags of a record and the two forms of its path
\* ------------------------------------------------------------------------

\* The forward-slash form and the backslash form of a path.
FormsOf(path) == {normalizeSlashes(path), backslashForm(path)}

\* The tags the filter index holds under one form of a path.
TagsUnder(filters, form) ==
    IF form \in DOMAIN filters.tags
    THEN {filters.tags[form][k] : k \in 1..Len(filters.tags[form])}
    ELSE {}

\* The tags of a record.
TagSetOf(char) == {char.tags[k] : k \in 1..Len(char.tags)}

\* C22: the tags of every stored record contain the tags the filter index
\* holds under the forward-slash form and those it holds under the backslash
\* form of the record's path.
C22_TagsAreUnion ==
    lastRun.ran =>
        \A i \in 1..Len(mlpcharacters) :
            \A form \in FormsOf(mlpcharacters[i].path) :
                TagsUnder(lastRun.filters, form) \subseteq TagSetOf(mlpcharacters[i])

\* What index.js does: the tags of a stored record are the entry under the
\* forward-slash form when the index has one, even an empty one, and
\* otherwise the entry under the backslash form.
C22_FirstEntryWins ==
    lastRun.ran =>
        \A i \in 1..Len(mlpcharacters) :
            LET path == mlpcharacters[i].path
                slashForm == normalizeSlashes(path)
            IN  TagSetOf(mlpcharacters[i]) =
                    IF slashForm \in DOMAIN lastRun.filters.tags
                    THEN TagsUnder(lastRun.filters, slashForm)
                    ELSE TagsUnder(lastRun.filters, backslashForm(path))

\* ------------------------------------------------------------------------
\* C23: a failed search leaves the shared state as it was
\* ------------------------------------------------------------------------

\* A response of invocation i arrives in the step, the one that makes it
\* fail included.
AwaitsOrFails(i) ==
    /\ searches[i].pc = "awaitResponses"
    /\ searches'[i] # searches[i]
    /\ searches'[i].pc \in {"awaitResponses", "failed"}

\* C23: an invocation that ends with a response that is not ok writes none of
\* cachedData, lastFetchTime, mlpcharacters and tagCounts: they are the same
\* after each of its steps, the failing one included, as before it.
C23_FailedSearchWritesNothing ==
    [][\A i \in SearchIds :
          AwaitsOrFails(i) =>
              UNCHANGED <<cachedData, lastFetchTime, mlpcharacters, tagCounts>>]_vars

\* An invocation has failed after an earlier one had succeeded; the cache,
\* the timestamp, the stored records and the counts are still those of the
\* earlier one, under the error message of the later one.
C23_Witness ==
    /\ searches[1].pc = "done"
    /\ searches[2].pc = "failed"
    /\ view = ViewError(2)
    /\ lastRun.id = 1
    /\ cachedData # None
    /\ cachedData[1].req = 1
    /\ lastFetchTime >= ClockStart
    /\ mlpcharacters # <<>>
    /\ tagCounts # EmptyMap

\* ------------------------------------------------------------------------
\* C24: the back-off after an empty page terminates
\* ------------------------------------------------------------------------

\* The invocations the step starts.
StartedNow ==
    {j \in SearchIds : searches[j].pc = "unused" /\ searches'[j].pc = "awaitResponses"}

\* The request has been made and no invocation waits for the network.
ChainEnded == stage = "index.js" /\ InFlight = {}

\* The list shows a page of records, not above the page asked for.
ShowsPage ==
    /\ view.kind = "list"
    /\ view.items # <<>>
    /\ view.items = lastRun.page
    /\ lastRun.opts.page \in 1..lastRequest.page
    /\ pageNumber = lastRun.opts.page

\* The list shows 'No characters found' for page 1.
ShowsNoCharacters ==
    /\ view.kind = "no-characters-found"
    /\ lastRun.page = <<>>
    /\ lastRun.opts.page = 1

\* C24 as stated: a chain that has ended shows a page of records, not above
\* the page asked for, or 'No characters found' for page 1.
C24_EndsOnPageOrNoCharacters == ChainEnded => ShowsPage \/ ShowsNoCharacters

C24_Step ==
    /\ \A j \in StartedNow : searches'[j].opts.page >= 1
    /\ (stage = "input" /\ stage' = "index.js") =>
          \A j \in StartedNow : searches'[j].opts.page = lastRequest'.page
    /\ \A i \in SearchIds :
          CompletesNow(i) =>
              LET p == searches[i].opts.page
                  n == settings.findCount
                  sorted == SortedOf(lastRun', sortSelect, n)
              IN  /\ Cardinality(StartedNow) <= 1
                  /\ \A j \in StartedNow :
                        /\ lastRun'.page = <<>>
                        /\ lastRun'.opts.page = p
                        /\ searches'[j].opts = [searches[i].opts EXCEPT !.page = p - 1]
                        /\ pageNumber' = p - 1
                  /\ StartedNow = {} =>
                        /\ lastRun'.opts.page = Min(p, LastPageOf(Len(sorted), n))
                        /\ lastRun'.opts.searchTerm = searches[i].opts.searchTerm
    /\ SearchFailsNow => StartedNow = {} /\ view'.kind = "error"
    /\ ChainEnded' => \/ ShowsPage'
                      \/ ShowsNoCharacters'
                      \/ view'.kind = "error" /\ \E i \in SearchIds : searches'[i].pc = "failed"

\* C24, amended: no search of a chain asks for a page below 1; the first
\* asks for the page requested; a search that finds its page p empty is
\* followed by at most one search, for page p - 1 of the same term, and
\* only when p > 1, so that a chain from page p makes at most p searches
\* and ends at the last page that is not empty or at page 1; a fetch that
\* fails ends the chain; and a chain that has ended shows a page of records
\* not above the page requested, or 'No characters found' for page 1, or the
\* error of the fetch that failed.
C24_BackoffTerminates == [][C24_Step]_vars

\* Page 2 was requested with caching off and is empty: the search was
\* followed by one for page 1, which shows its records.
C24_Witness ==
    /\ ChainEnded
    /\ ~settings.cacheEnabled
    /\ lastRequest.page = 2
    /\ \A i \in {1, 2} : searches[i].pc = "done"
    /\ lastRun.opts.page = 1
    /\ pageNumber = 1
    /\ ShowsPage

\* ------------------------------------------------------------------------
\* C25: the page shown, the page displayed and the page of the pager
\* ------------------------------------------------------------------------

\* The popup is open and no search is waiting for the network.
Quiescent == popup = "ready" /\ InFlight = {} /\ lastRun.ran

\* C25: in every quiescent state #pageNumber shows the page whose slice the
\* list displays, and the Previous/Next handlers step from that page.
C25_PageCountersAgree ==
    Quiescent => /\ pageNumber = lastRun.opts.page
                 /\ pageNumber = currentPage

\* ------------------------------------------------------------------------
\* C26: the cache and its timestamp under overlapping fetches
\* ------------------------------------------------------------------------

\* The step empties the cache as Clear Cache does.
ClearsCache == cachedData' = None /\ lastFetchTime' = 0

\* C26: lastFetchTime never decreases except through Clear Cache, and an
\* invocation that completes does not replace a cached pair that was fetched
\* by an invocation started after it.
C26_CacheOnlyMovesForward ==
    [][/\ lastFetchTime' >= lastFetchTime \/ ClearsCache
       /\ \A i \in SearchIds :
             (CompletesNow(i) /\ cachedData # None /\ cachedData[1].at > searches[i].now)
                 => cachedData' = cachedData]_vars

\* ------------------------------------------------------------------------
\* C27: the selection of the searches and the buttons shown as selected
\* ------------------------------------------------------------------------

\* C27: whenever a list popup is open, selectedTags holds exactly the
\* buttons shown as selected, each once.
C27_SelectionMatchesButtons ==
    popup # "closed" =>
        /\ {selectedTags[i] : i \in 1..Len(selectedTags)} = buttons
        /\ Len(selectedTags) = Cardinality(buttons)

\* ------------------------------------------------------------------------
\* C28: one click on a download button, one download
\* ------------------------------------------------------------------------

\* C28: while a list is shown its container carries exactly one click
\* listener, in index.js and in part_001, so that a click on a download
\* button calls downloadCharacter once, however many lists were rendered
\* before.
C28_OneListenerPerContainer ==
    view.kind = "list" => listeners.indexJs = 1 /\ listeners.part001 = 1

\* The half of C28 about index.js, which it satisfies: one listener on the
\* container of an open popup, and a click starts one download.
C28_IndexJsHalf ==
    [][/\ popup' # "closed" => listeners'.indexJs = 1
       /\ direct' # direct =>
              /\ direct' = direct + 1
              /\ Cardinality(downloads' \ downloads) + Cardinality(failed' \ failed) = 1]_vars

\* ------------------------------------------------------------------------
\* C29: Clear Cache
\* ------------------------------------------------------------------------

\* The step takes the cached pair or the timestamp away: a click on Clear
\* Cache.
CacheCleared ==
    \/ cachedData # None /\ cachedData' = None
    \/ lastFetchTime # 0 /\ lastFetchTime' = 0

\* Invocation i starts in this step and goes to the network for both
\* resources.
FetchesNow(i) ==
    /\ searches[i].pc = "unused"
    /\ searches'[i].pc = "awaitResponses"
    /\ searches'[i].requests = requestsIssued
    /\ searches'[i].opts.page = 1

\* C29: a click on Clear Cache leaves no cached pair and a timestamp of
\* zero, and the search it starts issues the two requests and shows the
\* spinner rather than a page computed from the cache, whatever the age of
\* the pair was and whether caching is enabled or not.
C29_ClearCacheGoesToNetwork ==
    [][CacheCleared =>
          /\ cachedData' = None
          /\ lastFetchTime' = 0
          /\ \E i \in SearchIds : FetchesNow(i) /\ view' = ViewSpinner(i)
          /\ lastRun' = lastRun
          /\ mlpcharacters' = mlpcharacters]_vars

\* Clear Cache was clicked, with caching enabled, at the instant at which the
\* pair had been fetched; its search waits for the network.
C29_Witness ==
    /\ settings.cacheEnabled
    /\ cachedData = None
    /\ lastFetchTime = 0
    /\ lastRequest.by = "change"
    /\ lastRun.ran
    /\ lastRun.requests = requestsIssued
    /\ clock = ClockStart
    /\ searches[1].pc = "done"
    /\ searches[2].pc = "awaitResponses"
    /\ searches[2].requests = requestsIssued
    /\ searches[2].now = clock

\* ------------------------------------------------------------------------
\* C30: the batch selection
\* ------------------------------------------------------------------------

====
